---------------------------- MODULE Spec2Model ----------------------------
(***************************************************************************)
(* Verification model of menu-helper: the rate limiter                     *)
(* (server/rate-limiter.ts), dish-name normalization (utils/dish-utils),   *)
(* the dish cache and preference storage (server/storage) and the image    *)
(* resolver (server/image-search).                                         *)
(*                                                                         *)
(* One module, several specifications, one per component:                  *)
(*   SpecRL    concurrent checkAndIncrement calls against the counter store*)
(*   SpecNorm  the normalization functions applied to bounded dish names   *)
(*   SpecPref  concurrent POST /api/preferences requests                   *)
(*   SpecCache the dish cache (findDishInCache, findDishById, cacheDish)   *)
(*             and the image resolver searchDishImage                      *)
(* Each specification moves only its own variables.                        *)
(***************************************************************************)
EXTENDS Integers, Sequences, FiniteSets, TLC

(***************************************************************************)
(* Bounds of the model.                                                    *)
(***************************************************************************)
\* concurrent checkAndIncrement calls in flight
NumCallers == 2
\* checkAndIncrement calls begun in one behaviour
MaxCalls == 3
\* the clock runs 0..MaxNow; one tick is one rate window (60 s)
MaxNow == 2
\* the limits table of rate-limiter.ts:71-74, scaled down so that the limits
\* are reached inside the bounds (openai 20/500, google-vision 100/5000)
OpenaiPerMinute == 1
OpenaiPerDay == 2
VisionPerMinute == 2
VisionPerDay == 3

(***************************************************************************)
(* Time.  `now` counts ticks of 60 s.  The window index is                 *)
(* floor(now / (windowSeconds * 1000)) with windowSeconds = 60, the day    *)
(* bucket is the UTC date of `now`.  A day is scaled to two windows.       *)
(***************************************************************************)
WindowTicks == 1
DayTicks == 2

VARIABLES
    now,        \* Date.now(), in ticks
    kvKind,     \* the store getKV resolved to: "local", "vercel" or "stub"
    store,      \* counter store: key -> count (0 = key absent)
    expireAt,   \* counter store: key -> tick at which the key expires (-1 = no expiry)
    started,    \* checkAndIncrement calls begun so far
    calls,      \* per caller: the position and locals of its checkAndIncrement call
    rawName,    \* a raw dish name as read off a menu
    otherName,  \* a second raw dish name
    normPc,     \* how far the names have been processed
    key1,       \* normalizeDishName(rawName)
    key2,       \* normalizeDishName(key1)
    prefRows,   \* table preferences: a sequence of rows, the row id is the position
    prefReqs,   \* per request slot: the position and locals of a POST /api/preferences
    prefPosts,  \* POST /api/preferences requests begun so far
    dishRows,   \* table dish_cache: a sequence of rows, the row id is the position
    jobs,       \* per worker: the position and locals of its cache or resolver call
    cacheOps,   \* cache and resolver calls begun so far
    imageSearchOn, \* ENABLE_IMAGE_SEARCH, GOOGLE_API_KEY and GOOGLE_CX are all set
    openaiKey,  \* process.env.OPENAI_API_KEY is set
    recReq,     \* the position and locals of a POST /api/recommendations
    recPosts,   \* POST /api/recommendations requests begun so far
    descriptionCache,          \* the in-process Map of getOpenAIDescription
    detailedDescriptionCache,  \* the in-process Map of getDetailedDescription
    descReq,    \* the position and locals of each description call in flight
    descCalls,  \* description calls begun so far
    descFirst,  \* per Map key, the first description stored for it and when
    visConfig,  \* the primary vision provider: "ok", "disabled" or "misconfigured"
    visReq,     \* the position and locals of an analyzeMenuImage call
    visCalls,   \* analyzeMenuImage calls begun so far
    anaReq,     \* the position and locals of a POST /api/analyze request
    anaLog,     \* the POST /api/analyze requests answered so far
    liveReq,    \* an operation of the core waiting on an external call
    liveCalls,  \* operations begun so far
    statsReq,   \* the position and locals of a getUsageStats call
    batchReq    \* the position and locals of a searchMultipleDishImages call

rlVars == <<kvKind, store, expireAt, started, calls>>
normVars == <<rawName, otherName, normPc, key1, key2>>
prefVars == <<prefRows, prefReqs, prefPosts>>
cacheVars == <<dishRows, jobs, cacheOps, imageSearchOn>>
recVars == <<openaiKey, recReq, recPosts>>
\* the state of the request handlers around the external providers
descVars == <<descriptionCache, detailedDescriptionCache, descReq, descCalls, descFirst>>
visVars == <<visConfig, visReq, visCalls>>
anaVars == <<anaReq, anaLog>>
liveVars == <<liveReq, liveCalls>>
\* the variables of the specifications of waiting and batching
extVars == <<liveVars, statsReq, batchReq>>
apiVars == <<recVars, descVars, visVars, anaVars, extVars>>
\* what the recommendation actions leave alone, the rate limiter aside
notRec == <<normVars, prefVars, cacheVars, descVars, visVars, anaVars, extVars>>
\* what the description actions leave alone, the rate limiter aside
notDesc == <<normVars, prefVars, cacheVars, visVars, anaVars, extVars>>
\* what the vision actions leave alone, the rate limiter aside
notVis == <<normVars, prefVars, cacheVars, recVars, descVars, anaVars, extVars>>
\* what the /api/analyze actions leave alone, beside the clock, the rate
\* limiter's store, the cache table and the description Map
notAna == <<kvKind, expireAt, started, calls, normVars, prefVars, jobs, cacheOps,
            imageSearchOn, recVars, detailedDescriptionCache, descReq, descCalls, descFirst,
            visVars,
            extVars>>
\* what the rate limiter's actions leave alone
notRL == <<normVars, prefVars, cacheVars, apiVars>>

vars == <<now, rlVars, normVars, prefVars, cacheVars, apiVars>>

Callers == 1..NumCallers

\* the API names the calls of the model pass to checkAndIncrement: a configured
\* name and the name the image resolver passes, which has no entry in `limits`;
\* "google-vision" takes the same path as "openai" with other numbers
ApiNames == {"openai", "google-search"}

\* this.limits (rate-limiter.ts:71-74)
limits ==
    [a \in {"openai", "google-vision"} |->
        IF a = "openai"
        THEN [perMinute |-> OpenaiPerMinute, perDay |-> OpenaiPerDay]
        ELSE [perMinute |-> VisionPerMinute, perDay |-> VisionPerDay]]

\* Math.floor(now / (windowSeconds * 1000))
WindowStart(t) == t \div WindowTicks

\* new Date().toISOString().split('T')[0]
Today(t) == t \div DayTicks

\* a window key that leaves the bucket out: one counter for all windows
WindowKeyShared(a, t) == <<a, "window", 0>>

\* `rate:${apiName}:${windowStart}`
WindowKey(a, t) == <<a, "window", WindowStart(t)>>

\* `rate:${apiName}:daily:${today}`
DailyKey(a, t) == <<a, "daily", Today(t)>>

Keys ==
    {<<a, "window", w>> : a \in DOMAIN limits, w \in 0..WindowStart(MaxNow)}
    \cup {<<a, "daily", d>> : a \in DOMAIN limits, d \in 0..Today(MaxNow)}

\* the expiry a call asks for: windowSeconds for the window key, 86400 s for the daily key
TtlTicks(k) == IF k[2] = "window" THEN WindowTicks ELSE DayTicks

(***************************************************************************)
(* The three stores of getKV: the in-memory Map (local), Vercel KV         *)
(* (a remote Redis: atomic INCR, EXPIRE, operations may fail), and the     *)
(* stub installed when importing @vercel/kv throws.                        *)
(***************************************************************************)
\* kv.get(key) followed by `|| 0`
KvGet(k) == IF kvKind = "stub" THEN 0 ELSE store[k]

\* the value kv.incr(key) returns
KvIncrValue(k) == IF kvKind = "stub" THEN 1 ELSE store[k] + 1

\* the store after kv.incr(key)
KvIncrStore(s, k) == IF kvKind = "stub" THEN s ELSE [s EXCEPT ![k] = @ + 1]

\* the expiries after kv.expire(key, seconds): a no-op except on Vercel KV,
\* where an existing key gets the deadline now + seconds
KvExpire(e, s, k) ==
    IF kvKind = "vercel" /\ s[k] > 0
    THEN [e EXCEPT ![k] = now + TtlTicks(k)]
    ELSE e

IdleCall ==
    [pc |-> "idle", api |-> "none", at |-> -1, wkey |-> <<>>, dkey |-> <<>>,
     pend |-> {}, rw |-> -1, rd |-> -1, nw |-> -1, nd |-> -1,
     result |-> "none", fail |-> "none", mut |-> 0]

\* concurrent POST /api/preferences requests in flight
NumPrefReqs == 2
\* POST /api/preferences requests begun in one behaviour
MaxPrefPosts == 3

PrefSlots == 1..NumPrefReqs

IdlePrefReq == [pc |-> "idle", deviceId |-> "none", body |-> "none",
                found |-> 0, status |-> 0]

\* no preference stored, no request in flight
PrefIdle ==
    /\ prefRows = <<>>
    /\ prefReqs = [r \in PrefSlots |-> IdlePrefReq]
    /\ prefPosts = 0

\* concurrent cache and resolver calls in flight
NumWorkers == 2
\* cache and resolver calls begun in one behaviour
MaxCacheOps == 2
\* the default life of a cache entry (90 days, storage 215), in ticks
CacheTtlTicks == 1

Workers == 1..NumWorkers

NoInput == [dishName |-> <<>>, imageUrls |-> <<>>, description |-> "",
            source |-> "none"]

IdleJob ==
    [op |-> "none", pc |-> "idle", name |-> <<>>, input |-> NoInput,
     dishId |-> <<>>, expiresAt |-> -1, existing |-> 0, at |-> -1,
     found |-> 0, foundExpiresAt |-> -1, sawExpired |-> FALSE,
     result |-> <<>>, external |-> 0, quota |-> 0,
     outcome |-> "none", entryUrls |-> <<>>,
     lookupFailed |-> FALSE, denied |-> FALSE, fetched |-> "none",
     threw |-> FALSE]

\* an empty dish cache, no call in flight, image search configured
CacheIdle ==
    /\ dishRows = <<>>
    /\ jobs = [w \in Workers |-> IdleJob]
    /\ cacheOps = 0
    /\ imageSearchOn = TRUE

\* POST /api/recommendations requests begun in one behaviour
MaxRecPosts == 3

IdleRecReq ==
    [pc |-> "idle", hasDevice |-> FALSE, dishes |-> <<>>, reply |-> "none",
     recs |-> <<>>, denied |-> FALSE, llmCalls |-> 0, quota |-> 0,
     error |-> "none", status |-> 0, result |-> <<>>, details |-> <<>>]

\* no recommendation request in flight, the provider key configured
RecIdle ==
    /\ openaiKey = TRUE
    /\ recReq = IdleRecReq
    /\ recPosts = 0

\* description calls begun in one behaviour
MaxDescCalls == 3

\* the dish names of the description calls
DescNames == { <<"a">>, <<"A">> }

\* the keys of the Maps: the dish names of the callers in lower case
DescKeys == { <<"a">>, <<"b">> }

\* the original menu descriptions passed to getDetailedDescription: none, or one
DescOriginals == {"", "menu text"}

\* description calls that can be in flight at once: the handlers of the
\* server interleave at every await
NumDescSlots == 2

DescSlots == 1..NumDescSlots

IdleDescReq ==
    [pc |-> "idle", kind |-> "none", name |-> <<>>, original |-> "",
     denied |-> FALSE, provider |-> "none", llmCalls |-> 0, quota |-> 0,
     result |-> "", threw |-> FALSE, began |-> 0]

\* the keys of the two Maps together: the function, the name in lower case
\* and the original description (none for getOpenAIDescription)
MemoKeys ==
    { <<"short", k, "">> : k \in DescKeys }
       \cup { <<"detailed", k[1], k[2]>> : k \in DescKeys \X DescOriginals }

\* nothing stored for a key yet
NoFirst == [text |-> "", at |-> 0]

\* both Maps empty, no description call in flight
DescIdle ==
    /\ descriptionCache = [k \in DescKeys |-> ""]
    /\ detailedDescriptionCache = [k \in DescKeys \X DescOriginals |-> ""]
    /\ descReq = [c \in DescSlots |-> IdleDescReq]
    /\ descCalls = 0
    /\ descFirst = [m \in MemoKeys |-> NoFirst]

\* analyzeMenuImage calls begun in one behaviour
MaxVisCalls == 3

IdleVisReq ==
    [pc |-> "idle", primary |-> "none", denied |-> FALSE, fallbackRan |-> FALSE,
     ocrDenied |-> FALSE, ocrCalls |-> 0, text |-> <<>>, dishes |-> <<>>,
     isMenu |-> FALSE, returned |-> FALSE, threw |-> FALSE]

\* no analyzeMenuImage call in flight, the primary provider enabled and configured
VisIdle ==
    /\ visConfig = "ok"
    /\ visReq = IdleVisReq
    /\ visCalls = 0

\* POST /api/analyze requests begun in one behaviour
MaxAnaReqs == 2

IdleAnaReq ==
    [pc |-> "idle", vision |-> "none", isMenu |-> FALSE, extracted |-> <<>>,
     fromEmpty |-> FALSE, tasks |-> <<>>, order |-> <<>>, status |-> 0, answer |-> <<>>,
     imageSearchCalls |-> 0, descCalls |-> 0, rateChecks |-> 0, cacheWrites |-> 0,
     extImage |-> 0, extDesc |-> 0]

\* no /api/analyze request in flight, none answered
AnaIdle ==
    /\ anaReq = IdleAnaReq
    /\ anaLog = <<>>

\* operations begun in one behaviour of the waiting specification
MaxLiveCalls == 2

IdleLiveReq ==
    [pc |-> "idle", op |-> "none", site |-> "none", attempt |-> 0,
     failed |-> FALSE, fellBack |-> FALSE]

\* no operation waiting
LiveIdle ==
    /\ liveReq = IdleLiveReq
    /\ liveCalls = 0

\* the entries of this.limits in the order of Object.entries (rate-limiter.ts:71-74)
LimitOrder == <<"openai", "google-vision">>

NoStats == [windowUsage |-> -1, dailyUsage |-> -1, dailyLimit |-> -1, withinLimits |-> FALSE]

IdleStatsReq ==
    [pc |-> "idle", at |-> -1, next |-> 1,
     stats |-> [a \in {"openai", "google-vision"} |-> NoStats], returned |-> "none"]

IdleBatchReq ==
    [pc |-> "idle", dishNames |-> <<>>, i |-> 0, calls |-> <<>>, results |-> {},
     returned |-> FALSE]

ExtIdle == LiveIdle /\ statsReq = IdleStatsReq /\ batchReq = IdleBatchReq

\* the request handlers around the providers at rest
ApiIdle == RecIdle /\ DescIdle /\ VisIdle /\ AnaIdle /\ ExtIdle

\* the names before any processing
NormIdle ==
    /\ rawName = <<>>
    /\ otherName = <<>>
    /\ normPc = "input"
    /\ key1 = <<>>
    /\ key2 = <<>>

RLInit ==
    /\ now = 0
    /\ kvKind \in {"local", "vercel", "stub"}
    /\ store = [k \in Keys |-> 0]
    /\ expireAt = [k \in Keys |-> -1]
    /\ started = 0
    /\ calls = [p \in Callers |-> IdleCall]


(***************************************************************************)
(* checkAndIncrement (rate-limiter.ts:272-336), one action per block of    *)
(* code between two awaits.  Against the local Map and the stub both gets  *)
(* (and both incrs) of a Promise.all run synchronously in the block that   *)
(* issues them; against Vercel KV each is a request of its own, served in  *)
(* any order and interleaved with the requests of other calls.             *)
(***************************************************************************)
\* the comparison with > in place of >=
ExceedsStrict(count, limit) == count > limit

\* currentWindowCount >= limits.perMinute, currentDailyCount >= limits.perDay (299-300)
Exceeds(count, limit) == count >= limit

\* a catch block that fails closed
CatchDenied == "denied"

\* the catch block (331-335): fail open
CatchResult == "allowed"

\* the value of a call record after the catch block ran
Caught(c, what) ==
    [c EXCEPT !.pc = "done", !.result = CatchResult, !.fail = what,
              !.nw = -1, !.nd = -1]

\* where the call continues once both incrs have returned (318-330)
AfterIncr(c) ==
    IF c.nw = 1 THEN [c EXCEPT !.pc = "expW"]
    ELSE IF c.nd = 1 THEN [c EXCEPT !.pc = "expD"]
    ELSE [c EXCEPT !.pc = "done", !.result = "allowed", !.nw = -1, !.nd = -1]

\* 272-293: read the clock, look the limits up, build the keys, issue both gets
CheckStart(p, a) ==
    /\ calls[p].pc = "idle"
    /\ started < MaxCalls
    /\ started' = started + 1
    /\ calls' = [calls EXCEPT ![p] =
         IF a \notin DOMAIN limits
         THEN [IdleCall EXCEPT !.pc = "done", !.api = a, !.result = "allowed"]
         ELSE LET c == [IdleCall EXCEPT !.api = a, !.at = now,
                                        !.wkey = WindowKey(a, now),
                                        !.dkey = DailyKey(a, now)]
              IN IF kvKind = "vercel"
                 THEN [c EXCEPT !.pc = "get", !.pend = {"getW", "getD"}]
                 ELSE [c EXCEPT !.pc = "check",
                                !.rw = KvGet(c.wkey), !.rd = KvGet(c.dkey)]]
    /\ UNCHANGED <<now, kvKind, store, expireAt>>
    /\ UNCHANGED notRL

\* 290-293 on Vercel KV: one of the two gets is served
GetReply(p, op) ==
    /\ kvKind = "vercel"
    /\ calls[p].pc = "get"
    /\ op \in calls[p].pend
    /\ LET c  == calls[p]
           c1 == IF op = "getW"
                 THEN [c EXCEPT !.rw = KvGet(c.wkey), !.pend = @ \ {op}]
                 ELSE [c EXCEPT !.rd = KvGet(c.dkey), !.pend = @ \ {op}]
       IN calls' = [calls EXCEPT ![p] =
                      IF c1.pend = {} THEN [c1 EXCEPT !.pc = "check"] ELSE c1]
    /\ UNCHANGED <<now, kvKind, started, store, expireAt>>
    /\ UNCHANGED notRL

\* 290-293 on Vercel KV: a get rejects, Promise.all rejects, the catch block runs
GetFail(p) ==
    /\ kvKind = "vercel"
    /\ calls[p].pc = "get"
    /\ calls' = [calls EXCEPT ![p] = Caught([calls[p] EXCEPT !.pend = {}], "get")]
    /\ UNCHANGED <<now, kvKind, started, store, expireAt>>
    /\ UNCHANGED notRL

\* 295-316: compare with the limits; deny, or issue both incrs
CheckLimits(p) ==
    /\ calls[p].pc = "check"
    /\ LET c   == calls[p]
           lim == limits[c.api]
       IN IF Exceeds(c.rw, lim.perMinute) \/ Exceeds(c.rd, lim.perDay)
          THEN /\ calls' = [calls EXCEPT ![p] =
                             [c EXCEPT !.pc = "done", !.result = "denied"]]
               /\ UNCHANGED store
          ELSE IF kvKind = "vercel"
          THEN /\ calls' = [calls EXCEPT ![p] =
                             [c EXCEPT !.pc = "incr", !.mut = 2,
                                       !.pend = {"incrW", "incrD"}]]
               /\ UNCHANGED store
          ELSE /\ calls' = [calls EXCEPT ![p] =
                             AfterIncr([c EXCEPT !.mut = 2,
                                                 !.nw = KvIncrValue(c.wkey),
                                                 !.nd = KvIncrValue(c.dkey)])]
               /\ store' = KvIncrStore(KvIncrStore(store, c.wkey), c.dkey)
    /\ UNCHANGED <<now, kvKind, started, expireAt>>
    /\ UNCHANGED notRL

\* 313-316 on Vercel KV: one of the two INCRs is applied by the store.  The INCR
\* of a call whose other INCR failed is still in flight and lands after the
\* call has returned.
IncrApply(p, op) ==
    /\ kvKind = "vercel"
    /\ calls[p].pc \in {"incr", "done"}
    /\ op \in calls[p].pend
    /\ LET c  == calls[p]
           k  == IF op = "incrW" THEN c.wkey ELSE c.dkey
           c1 == IF c.pc = "done" THEN [c EXCEPT !.pend = @ \ {op}]
                 ELSE IF op = "incrW"
                 THEN [c EXCEPT !.nw = KvIncrValue(k), !.pend = @ \ {op}]
                 ELSE [c EXCEPT !.nd = KvIncrValue(k), !.pend = @ \ {op}]
       IN /\ store' = KvIncrStore(store, k)
          /\ calls' = [calls EXCEPT ![p] =
                         IF c1.pc = "incr" /\ c1.pend = {} THEN AfterIncr(c1) ELSE c1]
    /\ UNCHANGED <<now, kvKind, started, expireAt>>
    /\ UNCHANGED notRL

\* 313-316 on Vercel KV: an INCR rejects (the request or its reply is lost),
\* Promise.all rejects, the catch block runs
IncrFail(p, op, applied) ==
    /\ kvKind = "vercel"
    /\ calls[p].pc = "incr"
    /\ op \in calls[p].pend
    /\ LET c == calls[p]
           k == IF op = "incrW" THEN c.wkey ELSE c.dkey
       IN /\ store' = IF applied THEN KvIncrStore(store, k) ELSE store
          /\ calls' = [calls EXCEPT ![p] =
                         Caught([c EXCEPT !.pend = @ \ {op}], "incr")]
    /\ UNCHANGED <<now, kvKind, started, expireAt>>
    /\ UNCHANGED notRL

\* 319-330: await kv.expire(windowKey, windowSeconds) when newWindowCount === 1,
\* then await kv.expire(dailyKey, 86400) when newDailyCount === 1, then return true
ExpireStep(p) ==
    /\ calls[p].pc \in {"expW", "expD"}
    /\ LET c == calls[p]
           k == IF c.pc = "expW" THEN c.wkey ELSE c.dkey
       IN /\ expireAt' = KvExpire(expireAt, store, k)
          /\ calls' = [calls EXCEPT ![p] =
                         IF c.pc = "expW" /\ c.nd = 1
                         THEN [c EXCEPT !.pc = "expD", !.mut = @ + 1]
                         ELSE [c EXCEPT !.pc = "done", !.mut = @ + 1,
                                        !.nw = -1, !.nd = -1,
                                        !.result = "allowed"]]
    /\ UNCHANGED <<now, kvKind, started, store>>
    /\ UNCHANGED notRL

\* 319-324 on Vercel KV: the expire rejects, the catch block runs
ExpireFail(p) ==
    /\ kvKind = "vercel"
    /\ calls[p].pc \in {"expW", "expD"}
    /\ calls' = [calls EXCEPT ![p] =
                   Caught([calls[p] EXCEPT !.mut = @ + 1], "expire")]
    /\ UNCHANGED <<now, kvKind, started, store, expireAt>>
    /\ UNCHANGED notRL

\* the caller has consumed the result; the slot is free for the next call
Return(p) ==
    /\ calls[p].pc = "done"
    /\ calls[p].pend = {}
    /\ calls' = [calls EXCEPT ![p] = IdleCall]
    /\ UNCHANGED <<now, kvKind, started, store, expireAt>>
    /\ UNCHANGED notRL

\* Vercel KV drops a key once its expiry has passed.  A deadline set during
\* tick t with a time to live of n ticks falls inside tick t + n.
KvEvict(k) ==
    /\ kvKind = "vercel"
    /\ expireAt[k] # -1
    /\ now >= expireAt[k]
    /\ store' = [store EXCEPT ![k] = 0]
    /\ expireAt' = [expireAt EXCEPT ![k] = -1]
    /\ UNCHANGED <<now, kvKind, started, calls>>
    /\ UNCHANGED notRL

\* the clock advances, after the keys due in this tick have been dropped
Tick ==
    /\ now < MaxNow
    /\ \A k \in Keys : expireAt[k] = -1 \/ expireAt[k] > now
    /\ now' = now + 1
    /\ UNCHANGED <<kvKind, started, store, expireAt, calls>>
    /\ UNCHANGED notRL

RLNext ==
    \/ \E p \in Callers, a \in ApiNames : CheckStart(p, a)
    \/ \E p \in Callers, op \in {"getW", "getD"} : GetReply(p, op)
    \/ \E p \in Callers : GetFail(p)
    \/ \E p \in Callers : CheckLimits(p)
    \/ \E p \in Callers, op \in {"incrW", "incrD"} : IncrApply(p, op)
    \/ \E p \in Callers, op \in {"incrW", "incrD"}, applied \in BOOLEAN :
          IncrFail(p, op, applied)
    \/ \E p \in Callers : ExpireStep(p)
    \/ \E p \in Callers : ExpireFail(p)
    \/ \E p \in Callers : Return(p)
    \/ \E k \in Keys : KvEvict(k)
    \/ Tick

InitRL == RLInit /\ NormIdle /\ PrefIdle /\ CacheIdle /\ ApiIdle

SpecRL == InitRL /\ [][RLNext]_vars

(***************************************************************************)
(* Properties of the rate limiter, checked under SpecRL.                   *)
(***************************************************************************)
\* the finished calls that no store failure cut short
Finished(p) == calls[p].pc = "done" /\ calls[p].fail = "none"

\* the finished calls for API a that were allowed and used counter key k
AllowedOn(a, k) ==
    {p \in Callers : /\ Finished(p)
                     /\ calls[p].api = a
                     /\ calls[p].result = "allowed"
                     /\ k \in {calls[p].wkey, calls[p].dkey}}

\* C1: among concurrent checkAndIncrement(api) calls of one window bucket at
\* most perMinute return allowed, and at most perDay in one day bucket, under
\* every interleaving of their store reads and increments (stated for the
\* stores that count, with no store operation failing).
C1_NoOverAdmission ==
    kvKind \in {"local", "vercel"} =>
        \A a \in DOMAIN limits, k \in Keys :
            k[1] = a =>
                Cardinality(AllowedOn(a, k)) <=
                    (IF k[2] = "window" THEN limits[a].perMinute ELSE limits[a].perDay)

\* the call of p has read both counters and one of them is at or above its limit
FoundAtLimit(c) ==
    /\ c.api \in DOMAIN limits
    /\ c.rw # -1 /\ c.rd # -1
    /\ (c.rw >= limits[c.api].perMinute \/ c.rd >= limits[c.api].perDay)

\* C2 (state part): a call that found the window counter at or above
\* perMinute, or the daily counter at or above perDay, has returned denied and
\* has issued no incr and no expire.
C2_DeniedIssuedNothing ==
    \A p \in Callers :
        (Finished(p) /\ FoundAtLimit(calls[p])) =>
            /\ calls[p].result = "denied"
            /\ calls[p].mut = 0
            /\ calls[p].pend = {}

\* C2 (step part): the step in which such a call decides leaves every counter
\* and every expiry of the store as it was.
C2_DenyStepFrame ==
    \A p \in Callers :
        (calls[p].pc = "check" /\ FoundAtLimit(calls[p]) /\ calls'[p] # calls[p]) =>
            /\ calls'[p].pc = "done"
            /\ calls'[p].result = "denied"
            /\ store' = store
            /\ expireAt' = expireAt

\* C2: when checkAndIncrement(api) finds the window counter at or above
\* perMinuteLimit or the daily counter at or above perDayLimit, it returns
\* denied and leaves both counters and their expiries unchanged.
C2_DeniedWithoutMutation == [](C2_DeniedIssuedNothing) /\ [][C2_DenyStepFrame]_vars

\* C2 witness: a call was denied on a window counter at its limit.
C2_Witness ==
    \E p \in Callers :
        /\ Finished(p) /\ FoundAtLimit(calls[p])
        /\ calls[p].rw >= limits[calls[p].api].perMinute
        /\ calls[p].result = "denied"

\* C3: counters reset across window boundaries.  While `now` is in bucket W
\* the counter of every later bucket is 0, whatever the counter of W has
\* reached; and a call is denied only on the counters of its own window and
\* day bucket, so a call denied in W is allowed again in W+1 while the daily
\* counter is below perDay.
C3_WindowReset ==
    /\ \A a \in DOMAIN limits, t \in 0..MaxNow :
          WindowStart(t) > WindowStart(now) => store[WindowKey(a, t)] = 0
    /\ \A p \in Callers :
          (Finished(p) /\ calls[p].api \in DOMAIN limits) =>
              /\ calls[p].wkey[3] = WindowStart(calls[p].at)
              /\ (calls[p].result = "denied" <=> FoundAtLimit(calls[p]))

\* C3 witness: a call was denied in bucket W on the window counter and a call
\* of the same API, begun in bucket W+1 on the same day, was allowed.
C3_Witness ==
    \E p, q \in Callers :
        /\ Finished(p) /\ Finished(q)
        /\ calls[p].api = calls[q].api /\ calls[p].api \in DOMAIN limits
        /\ calls[p].result = "denied"
        /\ calls[p].rw >= limits[calls[p].api].perMinute
        /\ WindowStart(calls[q].at) = WindowStart(calls[p].at) + 1
        /\ calls[q].dkey = calls[p].dkey
        /\ calls[q].result = "allowed"
        /\ kvKind \in {"local", "vercel"}

\* C4: the limiter fails open.  A call during which a store operation (get,
\* incr or expire) failed returns allowed, every call against the stub store
\* installed when the store cannot be loaded returns allowed, and a call ends
\* with a result, never with an error.
C4_FailOpen ==
    \A p \in Callers :
        calls[p].pc = "done" =>
            /\ calls[p].result \in {"allowed", "denied"}
            /\ (calls[p].fail # "none" => calls[p].result = "allowed")
            /\ (kvKind = "stub" => calls[p].result = "allowed")

\* C4 witness: a call whose expire failed, after both increments, has finished allowed.
C4_Witness ==
    \E p \in Callers :
        /\ calls[p].pc = "done"
        /\ calls[p].fail = "expire"
        /\ calls[p].result = "allowed"

(***************************************************************************)
(* Dish names.  A string is a sequence of one-character strings.           *)
(***************************************************************************)
\* longest raw dish name drawn as an input
MaxNameLen == 4
\* longest second dish name drawn to compare cache keys with
MaxOtherLen == 1

\* the characters the inputs are built from: a lower-case and an upper-case
\* letter, blank, a currency sign, a digit, a decimal separator, parentheses
\* and a menu marker
Alphabet == {"a", "B", " ", "$", "1", ".", "(", ")", "*"}

RECURSIVE StringsUpTo(_)
StringsUpTo(n) ==
    IF n = 0 THEN {<<>>}
    ELSE LET shorter == StringsUpTo(n - 1)
         IN shorter \cup {Append(x, c) : x \in {y \in shorter : Len(y) = n - 1},
                                         c \in Alphabet}

\* \s of a JavaScript regular expression
SpaceChars == {" ", "\t", "\n"}
IsSpace(c) == c \in SpaceChars

\* \d
DigitChars == {"0", "1", "2", "3", "4", "5", "6", "7", "8", "9"}
IsDigit(c) == c \in DigitChars

\* the class of currency signs of the price pattern (dish-utils:27); the
\* signs beyond "$" behave alike
IsCurrency(c) == c \in {"$"}

\* [.,]
IsDecimalSep(c) == c \in {".", ","}

\* the class of menu markers (dish-utils:42); the markers beyond "*" behave alike
IsMarker(c) == c \in {"*"}

UpperLetters == <<"A", "B", "C", "D", "E", "F", "G", "H", "I", "J", "K", "L", "M",
                  "N", "O", "P", "Q", "R", "S", "T", "U", "V", "W", "X", "Y", "Z">>
LowerLetters == <<"a", "b", "c", "d", "e", "f", "g", "h", "i", "j", "k", "l", "m",
                  "n", "o", "p", "q", "r", "s", "t", "u", "v", "w", "x", "y", "z">>

LowerChar(c) ==
    IF \E i \in 1..26 : UpperLetters[i] = c
    THEN LowerLetters[CHOOSE i \in 1..26 : UpperLetters[i] = c]
    ELSE c

\* String.prototype.toLowerCase
ToLowerCase(s) == [i \in 1..Len(s) |-> LowerChar(s[i])]

\* the number of characters of s, from position i on, up to the first one outside cls
RECURSIVE RunLen(_, _, _)
RunLen(s, i, cls) ==
    IF i <= Len(s) /\ s[i] \in cls THEN 1 + RunLen(s, i + 1, cls) ELSE 0

\* String.prototype.trim
Trim(s) ==
    LET lead == RunLen(s, 1, SpaceChars)
    IN IF lead = Len(s) THEN <<>>
       ELSE LET last == CHOOSE j \in 1..Len(s) :
                            /\ ~IsSpace(s[j])
                            /\ \A k \in (j + 1)..Len(s) : IsSpace(s[k])
            IN SubSeq(s, lead + 1, last)

\* replace(/\s+/g, " ")
RECURSIVE CollapseSpaces(_)
CollapseSpaces(s) ==
    IF s = <<>> THEN <<>>
    ELSE IF IsSpace(s[1])
         THEN <<" ">> \o CollapseSpaces(SubSeq(s, RunLen(s, 1, SpaceChars) + 1, Len(s)))
         ELSE <<s[1]>> \o CollapseSpaces(Tail(s))

\* the length of ([.,]\d{1,2})? matched greedily at position i of s
DecimalsLen(s, i) ==
    IF i + 1 <= Len(s) /\ IsDecimalSep(s[i]) /\ IsDigit(s[i + 1])
    THEN IF i + 2 <= Len(s) /\ IsDigit(s[i + 2]) THEN 3 ELSE 2
    ELSE 0

\* the length of the match of /[$...]\s*\d+([.,]\d{1,2})?/ at the head of s, 0 if none
PriceMatchLen(s) ==
    IF s = <<>> \/ ~IsCurrency(s[1]) THEN 0
    ELSE LET sp == RunLen(s, 2, SpaceChars)
             dg == RunLen(s, 2 + sp, DigitChars)
         IN IF dg = 0 THEN 0
            ELSE 1 + sp + dg + DecimalsLen(s, 2 + sp + dg)

\* replace(/[$...]\s*\d+([.,]\d{1,2})?/g, "") (dish-utils:27)
RECURSIVE StripPrices(_)
StripPrices(s) ==
    IF s = <<>> THEN <<>>
    ELSE LET m == PriceMatchLen(s)
         IN IF m > 0 THEN StripPrices(SubSeq(s, m + 1, Len(s)))
            ELSE <<s[1]>> \o StripPrices(Tail(s))

\* whether /\s+\d+([.,]\d{1,2})?\s*$/ matches s from position i to the end
TrailingNumberAt(s, i) ==
    /\ i <= Len(s) /\ IsSpace(s[i])
    /\ LET sp == RunLen(s, i, SpaceChars)
           dg == RunLen(s, i + sp, DigitChars)
           j  == i + sp + dg
       IN /\ dg > 0
          /\ \E dec \in {0, 2, 3} :
                /\ dec <= DecimalsLen(s, j)
                /\ j + dec + RunLen(s, j + dec, SpaceChars) = Len(s) + 1

\* replace(/\s+\d+([.,]\d{1,2})?\s*$/g, "") (dish-utils:30): the leftmost match goes
StripTrailingNumber(s) ==
    IF \E i \in 1..Len(s) : TrailingNumberAt(s, i)
    THEN LET i == CHOOSE i \in 1..Len(s) :
                     /\ TrailingNumberAt(s, i)
                     /\ \A k \in 1..(i - 1) : ~TrailingNumberAt(s, k)
         IN SubSeq(s, 1, i - 1)
    ELSE s

\* the first position from i on at which s holds the character c, 0 if none
RECURSIVE IndexFrom(_, _, _)
IndexFrom(s, i, c) ==
    IF i > Len(s) THEN 0
    ELSE IF s[i] = c THEN i ELSE IndexFrom(s, i + 1, c)

\* replace(/\([^)]*\)/g, "") and its bracket and brace twins (dish-utils:33-39)
RECURSIVE StripDelimited(_, _, _)
StripDelimited(s, open, close) ==
    IF s = <<>> THEN <<>>
    ELSE IF s[1] = open /\ IndexFrom(s, 2, close) > 0
         THEN StripDelimited(SubSeq(s, IndexFrom(s, 2, close) + 1, Len(s)), open, close)
         ELSE <<s[1]>> \o StripDelimited(Tail(s), open, close)

\* replace(/[*...]/g, "") (dish-utils:42)
StripMarkers(s) == SelectSeq(s, LAMBDA c : ~IsMarker(c))

\* normalizeDishName of utils/dish-utils (part_016:20-49)
normalizeDishName(dishName) ==
    IF dishName = <<>> THEN <<>>
    ELSE LET n1 == StripPrices(dishName)
             n2 == StripTrailingNumber(n1)
             n3 == StripDelimited(n2, "(", ")")
             n4 == StripDelimited(n3, "[", "]")
             n5 == StripDelimited(n4, "{", "}")
             n6 == StripMarkers(n5)
             n7 == CollapseSpaces(n6)
         IN ToLowerCase(Trim(n7))

\* normalizeDishName local to image-search (part_010:15-20)
imageSearchNormalize(dishName) == CollapseSpaces(Trim(ToLowerCase(dishName)))

\* normalizedName of the /api/analyze handler (routes.ts:141)
analyzeNormalize(dishName) == Trim(ToLowerCase(dishName))

(***************************************************************************)
(* SpecNorm: the normalization functions applied to every dish name within *)
(* the bounds.                                                             *)
(***************************************************************************)
\* the rate limiter at rest
RLIdle ==
    /\ now = 0
    /\ kvKind = "local"
    /\ store = [k \in Keys |-> 0]
    /\ expireAt = [k \in Keys |-> -1]
    /\ started = 0
    /\ calls = [p \in Callers |-> IdleCall]

NormInit ==
    /\ rawName \in StringsUpTo(MaxNameLen)
    /\ otherName \in StringsUpTo(MaxOtherLen)
    /\ normPc = "input"
    /\ key1 = <<>>
    /\ key2 = <<>>

\* the cache key is computed from the raw name
NormalizeOnce ==
    /\ normPc = "input"
    /\ key1' = normalizeDishName(rawName)
    /\ normPc' = "once"
    /\ UNCHANGED <<now, rlVars, prefVars, cacheVars, apiVars, rawName, otherName, key2>>

\* a key is normalized again, as when a stored key is looked up
NormalizeAgain ==
    /\ normPc = "once"
    /\ key2' = normalizeDishName(key1)
    /\ normPc' = "twice"
    /\ UNCHANGED <<now, rlVars, prefVars, cacheVars, apiVars, rawName, otherName, key1>>

NormNext == NormalizeOnce \/ NormalizeAgain

InitNorm == RLIdle /\ NormInit /\ PrefIdle /\ CacheIdle /\ ApiIdle

SpecNorm == InitNorm /\ [][NormNext]_vars

\* C5: dish-name normalization is idempotent:
\* normalizeDishName(normalizeDishName(x)) = normalizeDishName(x) for every raw name x.
C5_Idempotent == normPc = "twice" => key2 = key1

\* the key under which the image resolver reads and writes the cache entry of a name
ResolverKey(dishName) == imageSearchNormalize(dishName)

\* the key under which the /api/analyze handler reads and writes the cache entry of a name
AnalyzeKey(dishName) == analyzeNormalize(dishName)

\* C7: two raw dish names with equal (non-empty) normalized keys read and
\* write the same cache entry in the image resolver and in the /analyze
\* assembly step.
C7_SameEntryForEqualKeys ==
    (normPc = "once" /\ key1 # <<>> /\ key1 = normalizeDishName(otherName)) =>
        /\ ResolverKey(rawName) = ResolverKey(otherName)
        /\ AnalyzeKey(rawName) = AnalyzeKey(otherName)

(***************************************************************************)
(* SpecPref: POST /api/preferences (routes.ts:31-66) over the preferences  *)
(* table (schema part_001:79-87: a serial id, device_id NOT NULL, no       *)
(* unique constraint) and its storage methods (storage 121-138).           *)
(***************************************************************************)
\* the device ids of the requests
DeviceIds == {"dev1", "dev2"}

\* the request bodies: two valid preference payloads and one that
\* insertPreferenceSchema.parse rejects
PrefBodies == {"vegan", "spicy", "invalid"}

\* getPreferencesByDeviceId (storage 121-124): the first row of the device, 0 if none
getPreferencesByDeviceId(deviceId) ==
    IF \E i \in 1..Len(prefRows) : prefRows[i].deviceId = deviceId
    THEN CHOOSE i \in 1..Len(prefRows) :
            /\ prefRows[i].deviceId = deviceId
            /\ \A j \in 1..(i - 1) : prefRows[j].deviceId # deviceId
    ELSE 0

\* createPreference (storage 126-129): the table after the insert
createPreference(rows, pref) == Append(rows, pref)

\* updatePreference (storage 131-138): the table after the update of row id
updatePreference(rows, id, pref) == [rows EXCEPT ![id] = pref]

\* 33-47: the device id is taken from the request, the body is validated, the
\* lookup by device id is issued
PrefPostStart(r, d, b) ==
    /\ prefReqs[r].pc = "idle"
    /\ prefPosts < MaxPrefPosts
    /\ prefPosts' = prefPosts + 1
    /\ prefReqs' = [prefReqs EXCEPT ![r] =
         IF b = "invalid"
         THEN [IdlePrefReq EXCEPT !.pc = "done", !.deviceId = d, !.body = b,
                                  !.status = 400]
         ELSE [IdlePrefReq EXCEPT !.pc = "lookup", !.deviceId = d, !.body = b]]
    /\ UNCHANGED <<now, rlVars, normVars, cacheVars, apiVars, prefRows>>

\* 47: await storage.getPreferencesByDeviceId(deviceId)
PrefLookup(r) ==
    /\ prefReqs[r].pc = "lookup"
    /\ prefReqs' = [prefReqs EXCEPT ![r] =
         [@ EXCEPT !.pc = "write",
                   !.found = getPreferencesByDeviceId(prefReqs[r].deviceId)]]
    /\ UNCHANGED <<now, rlVars, normVars, cacheVars, apiVars, prefRows, prefPosts>>

\* 49-58: update the row found, or insert a new one; answer 201
PrefWrite(r) ==
    /\ prefReqs[r].pc = "write"
    /\ LET q   == prefReqs[r]
           row == [deviceId |-> q.deviceId, body |-> q.body]
       IN prefRows' = IF q.found # 0
                      THEN updatePreference(prefRows, q.found, row)
                      ELSE createPreference(prefRows, row)
    /\ prefReqs' = [prefReqs EXCEPT ![r] = [@ EXCEPT !.pc = "done", !.status = 201]]
    /\ UNCHANGED <<now, rlVars, normVars, cacheVars, apiVars, prefPosts>>

\* the response has been sent; the slot serves the next request
PrefRespond(r) ==
    /\ prefReqs[r].pc = "done"
    /\ prefReqs' = [prefReqs EXCEPT ![r] = IdlePrefReq]
    /\ UNCHANGED <<now, rlVars, normVars, cacheVars, apiVars, prefRows, prefPosts>>

PrefNext ==
    \/ \E r \in PrefSlots, d \in DeviceIds, b \in PrefBodies : PrefPostStart(r, d, b)
    \/ \E r \in PrefSlots : PrefLookup(r)
    \/ \E r \in PrefSlots : PrefWrite(r)
    \/ \E r \in PrefSlots : PrefRespond(r)

InitPref == RLIdle /\ NormIdle /\ PrefIdle /\ CacheIdle /\ ApiIdle

SpecPref == InitPref /\ [][PrefNext]_vars

\* C10: at most one PreferenceProfile exists per device id after any sequence
\* and any interleaving of POST /preferences requests.
C10_OneProfilePerDevice ==
    \A d \in DeviceIds :
        Cardinality({i \in 1..Len(prefRows) : prefRows[i].deviceId = d}) <= 1

(***************************************************************************)
(* SpecCache: the dish_cache table (schema part_001:102-112: serial id,    *)
(* dish_id NOT NULL UNIQUE, source NOT NULL, expires_at), the storage      *)
(* methods findDishInCache, findDishById and cacheDish (storage 142-258)   *)
(* and the image resolver searchDishImage (part_010:71-204).  Every await  *)
(* is a step of its own, so that concurrent calls interleave.              *)
(***************************************************************************)
\* the raw dish names of the calls: a plain name, the same name in another
\* case with trailing space, the same name followed by a price
CacheNames ==
    { <<"a", "b">>, <<"A", "b", " ">>, <<"a", "b", " ", "$", "1">> }

\* another dish of a menu: it differs from the third name in its punctuation
PunctuatedName == <<"a", "b", ".", "1">>

\* the image URL lists the callers of cacheDish pass: none (undefined), or
\* an image URL with its thumbnail
InputUrls == { <<>>, <<"u1", "t1">> }

\* what the search request ends in: fetch or response.json() throws, an HTTP
\* or API error, an empty item list, or items
FetchOutcomes == {"throw", "error", "empty", "items"}

\* the link and thumbnailLink of the first item of a search response
SearchUrls == <<"g1", "gt">>

\* the name searchDishImage passes to checkAndIncrement (part_010:122)
ImageSearchApi == "google-search"

\* /[^a-z0-9]/g replaced by '_'
ReplaceNonAlnum(s) ==
    [i \in 1..Len(s) |->
        IF (\E k \in 1..26 : LowerLetters[k] = s[i]) \/ IsDigit(s[i])
        THEN s[i] ELSE "_"]

RECURSIVE CollapseUnderscores(_)
\* /_+/g replaced by '_'
CollapseUnderscores(s) ==
    IF Len(s) <= 1 THEN s
    ELSE IF s[1] = "_" /\ s[2] = "_" THEN CollapseUnderscores(Tail(s))
    ELSE <<s[1]>> \o CollapseUnderscores(Tail(s))

\* `dish_${normalizedName.replace(/[^a-z0-9]/g, '_').replace(/_+/g, '_')}`
DishIdOf(dishName) ==
    <<"d", "i", "s", "h", "_">>
        \o CollapseUnderscores(ReplaceNonAlnum(Trim(ToLowerCase(dishName))))

\* a read that leaves the expiry filter out
NotExpiredAlways(row, t) == TRUE

\* gte(dishCache.expiresAt, new Date())
NotExpired(row, t) == row.expiresAt >= t

\* the rows findDishInCache selects (storage 147-152), for the read time t
NameMatches(dishName, t) ==
    {i \in 1..Len(dishRows) :
        /\ ToLowerCase(dishRows[i].dishName) = Trim(ToLowerCase(dishName))
        /\ NotExpired(dishRows[i], t)}

\* the rows findDishById selects (storage 171-176), for the read time t
IdMatches(dishId, t) ==
    {i \in 1..Len(dishRows) :
        /\ dishRows[i].dishId = dishId
        /\ NotExpired(dishRows[i], t)}

\* the rows cacheDish selects (storage 225): by dish id, expired or not
ExistingDish(dishId) == {i \in 1..Len(dishRows) : dishRows[i].dishId = dishId}

\* the dish ids of the names
DishIds == {DishIdOf(n) : n \in CacheNames}

\* the cacheDish inputs of the callers other than the resolver: both pass the
\* lower-cased, trimmed name and a description; /analyze (routes.ts:187-194)
\* passes no source, the serverless handler (part_018:153-160) passes 'openai'
CacheInputs ==
    [dishName : {analyzeNormalize(n) : n \in CacheNames} \cup {PunctuatedName},
     imageUrls : InputUrls, description : {"d1"}, source : {"none", "openai"}]

\* a row that the select of call j leaves out only because it has expired
ExpiredRowFor(j) ==
    \E i \in 1..Len(dishRows) :
        /\ dishRows[i].expiresAt < j.at
        /\ IF j.op = "findById" THEN dishRows[i].dishId = j.dishId
           ELSE ToLowerCase(dishRows[i].dishName) = Trim(ToLowerCase(j.name))

\* a worker begins a call
Begin(w) ==
    /\ jobs[w].pc = "idle"
    /\ cacheOps < MaxCacheOps
    /\ cacheOps' = cacheOps + 1

\* storage.findDishInCache(name): 144, the read time is taken when the query is built
FindStart(w, name) ==
    /\ Begin(w)
    /\ jobs' = [jobs EXCEPT ![w] =
         [IdleJob EXCEPT !.op = "find", !.pc = "read", !.name = name, !.at = now]]
    /\ UNCHANGED <<now, rlVars, normVars, prefVars, apiVars, dishRows, imageSearchOn>>

\* storage.findDishById(dishId): 168 returns undefined for an empty id
FindByIdStart(w, dishId) ==
    /\ Begin(w)
    /\ jobs' = [jobs EXCEPT ![w] =
         [IdleJob EXCEPT !.op = "findById", !.pc = "read", !.dishId = dishId,
                         !.at = now]]
    /\ UNCHANGED <<now, rlVars, normVars, prefVars, apiVars, dishRows, imageSearchOn>>

\* 147-160 and 171-183: the select runs; the first row selected is the hit
FindRead(w) ==
    /\ jobs[w].op \in {"find", "findById"}
    /\ jobs[w].pc = "read"
    /\ LET j == jobs[w]
           m == IF j.op = "find" THEN NameMatches(j.name, j.at)
                                 ELSE IdMatches(j.dishId, j.at)
       IN \E i \in (IF m = {} THEN {0} ELSE m) :
            jobs' = [jobs EXCEPT ![w] =
                [@ EXCEPT !.pc = "done", !.found = i,
                          !.foundExpiresAt = IF i = 0 THEN -1 ELSE dishRows[i].expiresAt,
                          !.sawExpired = ExpiredRowFor(j)]]
    /\ UNCHANGED <<now, rlVars, normVars, prefVars, apiVars, dishRows, cacheOps, imageSearchOn>>

\* 161-164 and 184-187: the select throws; the catch returns undefined
FindFail(w) ==
    /\ jobs[w].op \in {"find", "findById"}
    /\ jobs[w].pc = "read"
    /\ jobs' = [jobs EXCEPT ![w] = [@ EXCEPT !.pc = "done", !.found = 0]]
    /\ UNCHANGED <<now, rlVars, normVars, prefVars, apiVars, dishRows, cacheOps, imageSearchOn>>

\* storage.cacheDish(dishData), 208-222: the dish id and the expiry are computed
CacheStart(w, input) ==
    /\ Begin(w)
    /\ jobs' = [jobs EXCEPT ![w] =
         [IdleJob EXCEPT !.op = "cacheDish", !.pc = "select", !.name = input.dishName,
                         !.input = input, !.dishId = DishIdOf(input.dishName),
                         !.expiresAt = now + CacheTtlTicks]]
    /\ UNCHANGED <<now, rlVars, normVars, prefVars, apiVars, dishRows, imageSearchOn>>

\* 225: select by dish id
CacheSelect(w) ==
    /\ jobs[w].pc = "select"
    /\ LET e == ExistingDish(jobs[w].dishId)
       IN \E i \in (IF e = {} THEN {0} ELSE e) :
            jobs' = [jobs EXCEPT ![w] =
                [@ EXCEPT !.pc = IF i = 0 THEN "insert" ELSE "update",
                          !.existing = i]]
    /\ UNCHANGED <<now, rlVars, normVars, prefVars, apiVars, dishRows, cacheOps, imageSearchOn>>

\* 227-243: update the row found; `x || existing.x` keeps the old value of a
\* field the input leaves out
CacheUpdate(w) ==
    /\ jobs[w].pc = "update"
    /\ LET j   == jobs[w]
           old == dishRows[j.existing]
           new == [old EXCEPT
                     !.dishName = IF j.input.dishName # <<>>
                                  THEN j.input.dishName ELSE old.dishName,
                     !.imageUrls = IF j.input.imageUrls # <<>>
                                   THEN j.input.imageUrls ELSE old.imageUrls,
                     !.description = IF j.input.description # ""
                                     THEN j.input.description ELSE old.description,
                     !.expiresAt = j.expiresAt]
       IN dishRows' = [dishRows EXCEPT ![j.existing] = new]
    /\ jobs' = [jobs EXCEPT ![w] = [@ EXCEPT !.pc = "done", !.outcome = "ok"]]
    /\ UNCHANGED <<now, rlVars, normVars, prefVars, apiVars, cacheOps, imageSearchOn>>

\* 244-252: insert; the table refuses a row without source (NOT NULL) and a
\* second row with the same dish id (UNIQUE); 254-257 rethrows
CacheInsert(w) ==
    /\ jobs[w].pc = "insert"
    /\ LET j   == jobs[w]
           row == [dishName |-> j.input.dishName, dishId |-> j.dishId,
                   imageUrls |-> j.input.imageUrls,
                   description |-> j.input.description,
                   source |-> j.input.source, expiresAt |-> j.expiresAt]
       IN IF j.input.source = "none"
          THEN /\ jobs' = [jobs EXCEPT ![w] =
                     [@ EXCEPT !.pc = "done", !.outcome = "notNull"]]
               /\ UNCHANGED dishRows
          ELSE IF ExistingDish(j.dishId) # {}
          THEN /\ jobs' = [jobs EXCEPT ![w] =
                     [@ EXCEPT !.pc = "done", !.outcome = "duplicate"]]
               /\ UNCHANGED dishRows
          ELSE /\ jobs' = [jobs EXCEPT ![w] =
                     [@ EXCEPT !.pc = "done", !.outcome = "ok"]]
               /\ dishRows' = Append(dishRows, row)
    /\ UNCHANGED <<now, rlVars, normVars, prefVars, apiVars, cacheOps, imageSearchOn>>

\* the image URLs of a non-expired entry with at least one image URL, stored
\* for the normalized identifier of the raw name; <<>> if there is none
EntryUrlsFor(rawDishName, t) ==
    LET e == {i \in 1..Len(dishRows) :
                /\ normalizeDishName(dishRows[i].dishName) = normalizeDishName(rawDishName)
                /\ dishRows[i].expiresAt >= t
                /\ dishRows[i].imageUrls # <<>>}
    IN IF e = {} THEN <<>> ELSE dishRows[CHOOSE i \in e : TRUE].imageUrls

\* searchDishImage(dishName), part_010:87-111: the configuration checks, the
\* empty-name check, the normalization, and the cache lookup is issued
ResolveStart(w, name) ==
    /\ Begin(w)
    /\ jobs' = [jobs EXCEPT ![w] =
         IF ~imageSearchOn \/ Trim(name) = <<>>
         THEN [IdleJob EXCEPT !.op = "resolve", !.pc = "done", !.name = name]
         ELSE [IdleJob EXCEPT !.op = "resolve", !.pc = "lookup", !.name = name,
                              !.at = now]]
    /\ UNCHANGED <<now, rlVars, normVars, prefVars, apiVars, dishRows, imageSearchOn>>

\* 111-119: findDishInCache(normalizedName) answers; an entry with an image
\* URL is returned, anything else goes on to the rate check
ResolveLookup(w) ==
    /\ jobs[w].op = "resolve"
    /\ jobs[w].pc = "lookup"
    /\ LET j == jobs[w]
           m == NameMatches(imageSearchNormalize(j.name), j.at)
       IN \E i \in (IF m = {} THEN {0} ELSE m) :
            LET hit == i # 0 /\ dishRows[i].imageUrls # <<>>
            IN jobs' = [jobs EXCEPT ![w] =
                 [@ EXCEPT !.pc = IF hit THEN "done" ELSE "rate",
                           !.found = i,
                           !.foundExpiresAt = IF i = 0 THEN -1 ELSE dishRows[i].expiresAt,
                           !.sawExpired = ExpiredRowFor(j),
                           !.result = IF hit THEN dishRows[i].imageUrls ELSE <<>>,
                           !.entryUrls = EntryUrlsFor(j.name, j.at)]]
    /\ UNCHANGED <<now, rlVars, normVars, prefVars, apiVars, dishRows, cacheOps, imageSearchOn>>

\* the select of findDishInCache throws: it returns undefined (storage 161-164)
ResolveLookupFail(w) ==
    /\ jobs[w].op = "resolve"
    /\ jobs[w].pc = "lookup"
    /\ jobs' = [jobs EXCEPT ![w] = [@ EXCEPT !.pc = "rate", !.lookupFailed = TRUE]]
    /\ UNCHANGED <<now, rlVars, normVars, prefVars, apiVars, dishRows, cacheOps, imageSearchOn>>

\* 122-125: rateLimiter.checkAndIncrement('google-search'); a name without an
\* entry in `limits` is allowed and touches no counter (rate-limiter.ts:276-280)
ResolveRate(w) ==
    /\ jobs[w].op = "resolve"
    /\ jobs[w].pc = "rate"
    /\ LET known   == ImageSearchApi \in DOMAIN limits
           wk      == WindowKey(ImageSearchApi, now)
           dk      == DailyKey(ImageSearchApi, now)
           allowed == \/ ~known
                      \/ /\ ~Exceeds(KvGet(wk), limits[ImageSearchApi].perMinute)
                         /\ ~Exceeds(KvGet(dk), limits[ImageSearchApi].perDay)
       IN /\ store' = IF known /\ allowed
                      THEN KvIncrStore(KvIncrStore(store, wk), dk)
                      ELSE store
          /\ jobs' = [jobs EXCEPT ![w] =
               [@ EXCEPT !.pc = IF allowed THEN "fetch" ELSE "done",
                         !.denied = ~allowed,
                         !.quota = IF known /\ allowed THEN 2 ELSE 0]]
    /\ UNCHANGED <<now, kvKind, expireAt, started, calls, normVars, prefVars, apiVars,
                   dishRows, cacheOps, imageSearchOn>>

\* a catch that lets the exception out of searchDishImage
ResolverRethrows(j) == [j EXCEPT !.pc = "done", !.threw = TRUE]

\* the catch of part_010:199-202: the empty result is returned
ResolverCaught(j) == [j EXCEPT !.pc = "done", !.result = <<>>]

\* 146-187: the search request; an exception goes to the catch of 199, an
\* HTTP or API error and an empty item list give the empty result, a first
\* item is the result and is handed to cacheDish (189-192, without source)
\* under a catch of its own (193-196)
ResolveFetch(w, o) ==
    /\ jobs[w].op = "resolve"
    /\ jobs[w].pc = "fetch"
    /\ LET j  == jobs[w]
           nn == imageSearchNormalize(j.name)
       IN jobs' = [jobs EXCEPT ![w] =
            IF o = "items"
            THEN [@ EXCEPT !.pc = "select", !.external = @ + 1,
                           !.fetched = o,
                           !.result = SearchUrls,
                           !.input = [dishName |-> nn, imageUrls |-> SearchUrls,
                                      description |-> "", source |-> "none"],
                           !.dishId = DishIdOf(nn),
                           !.expiresAt = now + CacheTtlTicks]
            ELSE IF o = "throw"
            THEN ResolverCaught([@ EXCEPT !.external = @ + 1, !.fetched = o])
            ELSE [@ EXCEPT !.pc = "done", !.external = @ + 1, !.fetched = o]]
    /\ UNCHANGED <<now, rlVars, normVars, prefVars, apiVars, dishRows, cacheOps, imageSearchOn>>

\* the call has returned; the worker takes the next one
JobReturn(w) ==
    /\ jobs[w].pc = "done"
    /\ jobs' = [jobs EXCEPT ![w] = IdleJob]
    /\ UNCHANGED <<now, rlVars, normVars, prefVars, apiVars, dishRows, cacheOps, imageSearchOn>>

\* time passes
CacheTick ==
    /\ now < MaxNow
    /\ now' = now + 1
    /\ UNCHANGED <<rlVars, normVars, prefVars, apiVars, cacheVars>>

CacheInit ==
    /\ dishRows = <<>>
    /\ jobs = [w \in Workers |-> IdleJob]
    /\ cacheOps = 0
    /\ imageSearchOn \in BOOLEAN

CacheNext ==
    \/ \E w \in Workers, name \in CacheNames : FindStart(w, name)
    \/ \E w \in Workers, dishId \in DishIds : FindByIdStart(w, dishId)
    \/ \E w \in Workers : FindRead(w)
    \/ \E w \in Workers : FindFail(w)
    \/ \E w \in Workers, input \in CacheInputs : CacheStart(w, input)
    \/ \E w \in Workers : CacheSelect(w)
    \/ \E w \in Workers : CacheUpdate(w)
    \/ \E w \in Workers : CacheInsert(w)
    \/ \E w \in Workers, name \in CacheNames : ResolveStart(w, name)
    \/ \E w \in Workers : ResolveLookup(w)
    \/ \E w \in Workers : ResolveLookupFail(w)
    \/ \E w \in Workers : ResolveRate(w)
    \/ \E w \in Workers, o \in FetchOutcomes : ResolveFetch(w, o)
    \/ \E w \in Workers : JobReturn(w)
    \/ CacheTick

InitCache == RLIdle /\ NormIdle /\ PrefIdle /\ CacheInit /\ ApiIdle

SpecCache == InitCache /\ [][CacheNext]_vars

\* C6: a resolver call whose raw name has, under its normalized identifier, a
\* non-expired cache entry with at least one image URL when the cache is read
\* returns the cached image URLs, issues no external image-search call and
\* increments no rate counter.
C6_CacheHitNoQuota ==
    \A w \in Workers :
        (jobs[w].op = "resolve" /\ jobs[w].pc = "done" /\ jobs[w].entryUrls # <<>>)
            => /\ jobs[w].result = jobs[w].entryUrls
               /\ jobs[w].external = 0
               /\ jobs[w].quota = 0

\* C8: findDishInCache and findDishById, and the resolver's lookup through
\* them, never return a row whose expiresAt is earlier than the read time.
C8_ExpiredNeverServed ==
    \A w \in Workers :
        jobs[w].found # 0 => jobs[w].foundExpiresAt >= jobs[w].at

\* a lookup found a matching row that had expired and answered with a miss
C8_Witness ==
    \E w \in Workers :
        /\ jobs[w].op \in {"find", "findById"}
        /\ jobs[w].pc = "done"
        /\ jobs[w].sawExpired
        /\ jobs[w].found = 0

\* C9: every cacheDish call (given a source) succeeds under any interleaving,
\* and no dish identifier has more than one entry.
C9_UpsertsSucceed ==
    /\ \A w \in Workers :
          (jobs[w].op = "cacheDish" /\ jobs[w].pc = "done"
              /\ jobs[w].input.source # "none") => jobs[w].outcome = "ok"
    /\ \A i, k \in 1..Len(dishRows) :
          dishRows[i].dishId = dishRows[k].dishId => i = k

(***************************************************************************)
(* SpecRec: POST /api/recommendations (routes.ts:247-333) and              *)
(* getOpenAIRecommendations (part_013:46-248).  The reply of the LLM       *)
(* collaborator is an input: a provider error, an empty content, content   *)
(* that does not parse (or an entry whose name is not a string, which      *)
(* throws inside the same try), or a parsed list of recommendation names.  *)
(***************************************************************************)
\* the longest recommendations array of a reply
MaxReplyLen == 4

\* .slice(0, 3) (part_013:214)
MaxRecommendations == 3

\* the dish lists of the request bodies (the names of the dishes; the body is
\* not validated beyond being a non-empty array, so a name may be "")
RecMenus == { <<>>, << <<"a">> >>, << <<"a">>, <<"B", " ">> >>, << <<>> >> }

\* the names of the recommendations of a reply: two that match a menu dish up
\* to case and surrounding space, one that is on no menu, and a missing name
RecNames == { <<"A", " ">>, <<"b">>, <<"x">>, <<>>, <<" ">> }

RECURSIVE SeqsUpTo(_, _)
\* the sequences over S of length at most n
SeqsUpTo(S, n) ==
    IF n = 0 THEN { <<>> }
    ELSE LET shorter == SeqsUpTo(S, n - 1)
         IN shorter \cup {Append(q, x) : q \in {t \in shorter : Len(t) = n - 1}, x \in S}

\* what the provider call ends in; the three errors differ in what the
\* provider's message contains
ReplyKinds == {"error", "errorRateLimit", "errorApiKey", "nocontent", "badjson", "list"}

\* the check-then-increment of checkAndIncrement(api) run without another
\* call in between (rate-limiter.ts:272-336), on the store as it is now
RateAllowedNow(api) ==
    \/ api \notin DOMAIN limits
    \/ /\ ~Exceeds(KvGet(WindowKey(api, now)), limits[api].perMinute)
       /\ ~Exceeds(KvGet(DailyKey(api, now)), limits[api].perDay)

\* the store after that call
RateStoreAfter(api) ==
    IF api \in DOMAIN limits /\ RateAllowedNow(api)
    THEN KvIncrStore(KvIncrStore(store, WindowKey(api, now)), DailyKey(api, now))
    ELSE store

\* the counters that call incremented
RateQuota(api) == IF api \in DOMAIN limits /\ RateAllowedNow(api) THEN 2 ELSE 0

\* a dish list check that lets every list through
HasDishesAlways(dishes) == TRUE

\* !dishes || dishes.length === 0, negated (routes.ts:259, part_013:59)
HasDishes(dishes) == Len(dishes) > 0

\* name.toLowerCase().trim() (part_013:195, 205)
MenuKey(name) == Trim(ToLowerCase(name))

\* a filter that keeps every named recommendation
IsInMenuAny(dishes, name) == name # <<>>

\* the filter of part_013:202-213: the name is there and its key is in the map
IsInMenu(dishes, name) ==
    /\ name # <<>>
    /\ \E i \in 1..Len(dishes) : MenuKey(dishes[i]) = MenuKey(name)

\* menuDishesMap.get(key)?.name (194-197, 218): the last dish set under the key
OriginalName(dishes, name) ==
    LET m == {i \in 1..Len(dishes) : MenuKey(dishes[i]) = MenuKey(name)}
    IN IF m = {} THEN <<>>
       ELSE dishes[CHOOSE i \in m : \A k \in m : k <= i]

\* 201-227: filter, slice(0, 3), map to the menu's own name
ValidatedRecommendations(dishes, recs) ==
    LET Keep(name) == IsInMenu(dishes, name)
        kept  == SelectSeq(recs, Keep)
        first == SubSeq(kept, 1, IF Len(kept) < MaxRecommendations
                                 THEN Len(kept) ELSE MaxRecommendations)
    IN [i \in 1..Len(first) |->
          IF OriginalName(dishes, first[i]) # <<>>
          THEN OriginalName(dishes, first[i]) ELSE first[i]]

\* the index of menuDishesMap.get(key) in the input list, 0 for undefined
OriginalIndex(dishes, name) ==
    LET m == {i \in 1..Len(dishes) : MenuKey(dishes[i]) = MenuKey(name)}
    IN IF m = {} THEN 0 ELSE CHOOSE i \in m : \A k \in m : k <= i

\* the description and the image URL of the i-th dish of the input list, and
\* the ones the collaborator wrote into an entry of its reply
MenuField(i) == <<"menu", i>>
EchoedField == <<"reply">>

\* an entry that keeps what the collaborator wrote
RecommendationEchoed(dishes, name) ==
    [name |-> name, description |-> EchoedField, imageUrl |-> EchoedField]

\* 215-226: name: originalDish?.name || rec.name, description:
\* originalDish?.description, imageUrl: originalDish?.imageUrl
Recommendation(dishes, name) ==
    LET i == OriginalIndex(dishes, name)
    IN [name |-> IF i # 0 /\ dishes[i] # <<>> THEN dishes[i] ELSE name,
        description |-> IF i # 0 THEN MenuField(i) ELSE <<>>,
        imageUrl |-> IF i # 0 THEN MenuField(i) ELSE <<>>]

\* 201-227 with the fields of each entry
ValidatedDetails(dishes, recs) ==
    LET Keep(name) == IsInMenu(dishes, name)
        kept  == SelectSeq(recs, Keep)
        first == SubSeq(kept, 1, IF Len(kept) < MaxRecommendations
                                 THEN Len(kept) ELSE MaxRecommendations)
    IN [i \in 1..Len(first) |-> Recommendation(dishes, first[i])]

\* a catch that answers every error alike
ErrorStatusPlain(e) == 500

\* routes.ts:309-331: the status for an error, by what its message contains
ErrorStatus(e) ==
    IF e = "Rate limit" THEN 429
    ELSE IF e = "API key" THEN 503
    ELSE 500

\* routes.ts:250-263: the device id and the dish list of the body are checked
RecStart(hasDevice, dishes) ==
    /\ recReq.pc = "idle"
    /\ recPosts < MaxRecPosts
    /\ recPosts' = recPosts + 1
    /\ recReq' =
         IF ~hasDevice \/ ~HasDishes(dishes)
         THEN [IdleRecReq EXCEPT !.pc = "done", !.hasDevice = hasDevice,
                                 !.dishes = dishes, !.status = 400]
         ELSE [IdleRecReq EXCEPT !.pc = "prefs", !.hasDevice = hasDevice,
                                 !.dishes = dishes]
    /\ UNCHANGED <<now, rlVars, notRec, openaiKey>>

\* routes.ts:268-274: the stored preferences of the device
RecPrefs ==
    /\ recReq.pc = "prefs"
    /\ recReq' =
         IF getPreferencesByDeviceId("dev1") = 0
         THEN [recReq EXCEPT !.pc = "done", !.status = 400]
         ELSE [recReq EXCEPT !.pc = "check"]
    /\ UNCHANGED <<now, rlVars, notRec, openaiKey, recPosts>>

\* part_013:51-68: the key and the dish list are checked, then the rate
\* limiter is asked; each failure throws to the catch of routes.ts:309
RecCheck ==
    /\ recReq.pc = "check"
    /\ IF ~openaiKey
       THEN /\ recReq' = [recReq EXCEPT !.pc = "done", !.error = "API key",
                                        !.status = ErrorStatus("API key")]
            /\ UNCHANGED store
       ELSE IF ~HasDishes(recReq.dishes)
       THEN /\ recReq' = [recReq EXCEPT !.pc = "done", !.error = "other",
                                        !.status = ErrorStatus("other")]
            /\ UNCHANGED store
       ELSE IF ~RateAllowedNow("openai")
       THEN /\ recReq' = [recReq EXCEPT !.pc = "done", !.denied = TRUE,
                                        !.error = "Rate limit",
                                        !.status = ErrorStatus("Rate limit")]
            /\ UNCHANGED store
       ELSE /\ recReq' = [recReq EXCEPT !.pc = "llm", !.quota = RateQuota("openai")]
            /\ store' = RateStoreAfter("openai")
    /\ UNCHANGED <<now, kvKind, expireAt, started, calls, notRec, openaiKey, recPosts>>

\* part_013:114-243 and routes.ts:296-307: the provider call and what is made
\* of its reply
RecLLM(kind, recs) ==
    /\ recReq.pc = "llm"
    /\ kind = "list" \/ recs = <<>>
    /\ LET thrown == IF kind = "errorRateLimit" THEN "Rate limit"
                     ELSE IF kind = "errorApiKey" THEN "API key"
                     ELSE "other"
       IN recReq' =
            IF kind = "list" /\ Len(recs) > 0
            THEN [recReq EXCEPT !.pc = "done", !.reply = kind, !.recs = recs,
                                !.llmCalls = @ + 1, !.status = 200,
                                !.result = ValidatedRecommendations(recReq.dishes, recs),
                                !.details = ValidatedDetails(recReq.dishes, recs)]
            ELSE [recReq EXCEPT !.pc = "done", !.reply = kind, !.recs = recs,
                                !.llmCalls = @ + 1, !.error = thrown,
                                !.status = ErrorStatus(thrown)]
    /\ UNCHANGED <<now, rlVars, notRec, openaiKey, recPosts>>

\* the response has been sent
RecRespond ==
    /\ recReq.pc = "done"
    /\ recReq' = IdleRecReq
    /\ UNCHANGED <<now, rlVars, notRec, openaiKey, recPosts>>

\* the device has saved preferences or not; the provider key is set or not
RecInit ==
    /\ prefRows \in { <<>>, << [deviceId |-> "dev1", body |-> "vegan"] >> }
    /\ prefReqs = [r \in PrefSlots |-> IdlePrefReq]
    /\ prefPosts = 0
    /\ openaiKey \in BOOLEAN
    /\ recReq = IdleRecReq
    /\ recPosts = 0

RecNext ==
    \/ \E hasDevice \in BOOLEAN, dishes \in RecMenus : RecStart(hasDevice, dishes)
    \/ RecPrefs
    \/ RecCheck
    \/ \E kind \in ReplyKinds, recs \in SeqsUpTo(RecNames, MaxReplyLen) : RecLLM(kind, recs)
    \/ RecRespond

InitRec == RLIdle /\ NormIdle /\ CacheIdle /\ RecInit /\ DescIdle /\ VisIdle /\ AnaIdle /\ ExtIdle

SpecRec == InitRec /\ [][RecNext]_vars

\* C11: every entry getOpenAIRecommendations returns has a name that equals,
\* after trim and lowercase, the name of a dish of the input list, and the
\* result has at most 3 entries.
C11_OnlyMenuDishes ==
    recReq.status = 200 =>
        /\ Len(recReq.result) <= 3
        /\ \A i \in 1..Len(recReq.result) :
              \E k \in 1..Len(recReq.dishes) :
                  Trim(ToLowerCase(recReq.result[i])) = Trim(ToLowerCase(recReq.dishes[k]))

\* a reply of four entries, one of them on no menu, answered with three
C11_Witness ==
    /\ recReq.status = 200
    /\ Len(recReq.recs) = 4
    /\ \E i \in 1..4 : recReq.recs[i] = <<"x">>
    /\ Len(recReq.result) = 3

\* C12: if every recommendation of the parsed reply names a dish that is not
\* in the input list, the result is the empty list and the request is
\* answered 200.
C12_AllDroppedIsEmptyList ==
    (/\ recReq.pc = "done"
     /\ recReq.reply = "list"
     /\ \A i \in 1..Len(recReq.recs) :
           \A k \in 1..Len(recReq.dishes) :
               MenuKey(recReq.dishes[k]) # MenuKey(recReq.recs[i]))
        => /\ recReq.status = 200
           /\ recReq.result = <<>>

\* C13: a request the rate limiter denied has thrown the rate-limit error,
\* has not called the LLM collaborator and is answered 429.
C13_DeniedIs429 ==
    recReq.denied =>
        /\ recReq.error = "Rate limit"
        /\ recReq.llmCalls = 0
        /\ recReq.status = 429

\* a request was denied by the rate limiter
C13_Witness ==
    /\ recReq.pc = "done"
    /\ recReq.denied

\* C14: a finished request with an empty dish list, no saved preferences or
\* no provider key was rejected (400 for missing dishes or preferences)
\* without a call of the LLM collaborator and without a counter increment.
C14_RejectedEarly ==
    LET noDishes == Len(recReq.dishes) = 0
        noPrefs  == getPreferencesByDeviceId("dev1") = 0
    IN (recReq.pc = "done" /\ (noDishes \/ noPrefs \/ ~openaiKey))
          => /\ recReq.llmCalls = 0
             /\ recReq.quota = 0
             /\ recReq.status \in {400, 503}
             /\ (noDishes \/ noPrefs) => recReq.status = 400

\* each of the three rejections has happened: here the one for a device
\* with dishes and a provider key but no saved preferences
C14_Witness ==
    /\ recReq.pc = "done"
    /\ recReq.hasDevice
    /\ Len(recReq.dishes) > 0
    /\ getPreferencesByDeviceId("dev1") = 0
    /\ openaiKey
    /\ recReq.status = 400

\* C15: searchDishImage never throws, and returns the all-null result on a
\* rate-limiter denial, an empty item list, an HTTP or API error, an
\* exception and a cache-store error (a failed lookup or a failed write);
\* after a denial it has made no external call.
C15_AlwaysNullOnError ==
    \A w \in Workers :
        (jobs[w].op = "resolve" /\ jobs[w].pc = "done") =>
            /\ ~jobs[w].threw
            /\ (\/ jobs[w].denied
                \/ jobs[w].fetched \in {"throw", "error", "empty"}
                \/ jobs[w].lookupFailed
                \/ jobs[w].outcome \in {"notNull", "duplicate"})
                  => jobs[w].result = <<>>
            /\ jobs[w].denied => jobs[w].external = 0

\* C15, amended: searchDishImage never throws, and returns the all-null result
\* on a rate-limiter denial, an empty item list, an HTTP or API error and an
\* exception of the search request; after a denial it has made no external
\* call.  A cache-store error does not fail the call either, but the result
\* is then whatever the search gives: a failed lookup counts as a miss, and a
\* failed write leaves the result found.
C15_NeverThrows ==
    \A w \in Workers :
        (jobs[w].op = "resolve" /\ jobs[w].pc = "done") =>
            /\ ~jobs[w].threw
            /\ (jobs[w].denied \/ jobs[w].fetched \in {"throw", "error", "empty"})
                  => jobs[w].result = <<>>
            /\ jobs[w].denied => jobs[w].external = 0
            /\ jobs[w].outcome \in {"notNull", "duplicate"}
                  => jobs[w].result = SearchUrls

\* a search request threw after a failed cache lookup, and the call returned
\* the all-null result
C15_Witness ==
    \E w \in Workers :
        /\ jobs[w].op = "resolve"
        /\ jobs[w].pc = "done"
        /\ jobs[w].lookupFailed
        /\ jobs[w].fetched = "throw"
        /\ jobs[w].result = <<>>

\* C30: cacheDish never overwrites the entry of a different normalized dish
\* name: distinct normalized names have distinct dish ids, so the row an
\* update is about to write is a row of the name being cached.
C30_OwnRowUpdated ==
    \A w \in Workers :
       (jobs[w].op = "cacheDish" /\ jobs[w].pc = "update")
         => analyzeNormalize(dishRows[jobs[w].existing].dishName)
               = analyzeNormalize(jobs[w].input.dishName)

\* C28: the image-search name passed to checkAndIncrement has a configured
\* per-minute and per-day limit: a search the limiter has admitted has been
\* counted against the window and the day, so the admitted searches are
\* bounded and a denial of the Image Resolver is reachable.
C28_ImageSearchLimited ==
    \A w \in Workers :
       (jobs[w].op = "resolve" /\ jobs[w].pc = "fetch")
         => /\ ImageSearchApi \in DOMAIN limits
            /\ jobs[w].quota = 2

(***************************************************************************)
(* SpecDesc: getOpenAIDescription (part_017:32-98) and                     *)
(* getDetailedDescription (part_017:108-198) with their in-process Maps.   *)
(* "" stands for an absent Map entry and for an absent original            *)
(* description.                                                            *)
(***************************************************************************)
\* what the provider call ends in: a text, an empty content, an error whose
\* message contains 'rate limit' or '429', or another error
DescOutcomes == {"text", "nocontent", "errorRateLimit", "errorOther"}

\* the text the provider generates
GeneratedText == "generated"

\* the provider is not deterministic: two calls for one dish can get two texts
DescTexts == {GeneratedText, "generated again"}

\* a catch that lets the exception out of the function
DescRethrows(q, e) == [q EXCEPT !.pc = "done", !.threw = TRUE]

\* the catch blocks 83-97 and 185-197: the fallback for an exception e
DescCaught(q, e) ==
    [q EXCEPT !.pc = "done",
              !.result =
                 IF q.kind = "short"
                 THEN (IF e = "errorRateLimit"
                       THEN "Description temporarily unavailable due to rate limits"
                       ELSE "Description unavailable")
                 ELSE IF q.original # "" THEN q.original
                 ELSE IF e = "errorRateLimit"
                 THEN "Detailed description temporarily unavailable"
                 ELSE "Detailed description unavailable"]

\* the key of a call in MemoKeys
MemoKeyOf(q) ==
    <<q.kind, ToLowerCase(q.name), IF q.kind = "short" THEN "" ELSE q.original>>

\* 35-56 and 114-135: the Map lookup, the key check and the rate check
DescStart(c, kind, name, original) ==
    /\ descReq[c].pc = "idle"
    /\ descCalls < MaxDescCalls
    /\ kind = "detailed" \/ original = ""
    /\ descCalls' = descCalls + 1
    /\ LET q == [IdleDescReq EXCEPT !.kind = kind, !.name = name, !.original = original,
                                    !.began = descCalls + 1]
           cached == IF kind = "short" THEN descriptionCache[ToLowerCase(name)]
                     ELSE detailedDescriptionCache[<<ToLowerCase(name), original>>]
       IN IF cached # ""
          THEN /\ descReq' = [descReq EXCEPT ![c] = [q EXCEPT !.pc = "done", !.result = cached]]
               /\ UNCHANGED store
          ELSE IF ~openaiKey
          THEN /\ descReq' = [descReq EXCEPT ![c] = [q EXCEPT !.pc = "done",
                    !.result = IF kind = "short" THEN "No description available"
                               ELSE IF original # "" THEN original
                               ELSE "No detailed description available"]]
               /\ UNCHANGED store
          ELSE IF ~RateAllowedNow("openai")
          THEN /\ descReq' = [descReq EXCEPT ![c] = [q EXCEPT !.pc = "done", !.denied = TRUE,
                    !.result = IF kind = "short" THEN "Description temporarily unavailable"
                               ELSE IF original # "" THEN original
                               ELSE "Detailed description temporarily unavailable"]]
               /\ UNCHANGED store
          ELSE /\ descReq' = [descReq EXCEPT ![c] =
                                 [q EXCEPT !.pc = "llm", !.quota = RateQuota("openai")]]
               /\ store' = RateStoreAfter("openai")
    /\ UNCHANGED <<now, kvKind, expireAt, started, calls, notDesc, recVars,
                   descriptionCache, detailedDescriptionCache, descFirst>>

\* 59-82 and 142-184: the provider call; a text (or the fallback for an empty
\* content) is stored in the Map and returned, an exception goes to the catch
DescLLM(c, o, text) ==
    /\ descReq[c].pc = "llm"
    /\ LET q == [descReq[c] EXCEPT !.llmCalls = @ + 1, !.provider = o]
           description ==
              IF o = "text" THEN text
              ELSE IF q.kind = "short" THEN "No description available"
              ELSE IF q.original # "" THEN q.original
              ELSE "No detailed description available"
       IN IF o \in {"errorRateLimit", "errorOther"}
          THEN /\ descReq' = [descReq EXCEPT ![c] = DescCaught(q, o)]
               /\ UNCHANGED <<descriptionCache, detailedDescriptionCache, descFirst>>
          ELSE /\ descReq' = [descReq EXCEPT ![c] =
                                 [q EXCEPT !.pc = "done", !.result = description]]
               /\ descFirst' =
                     IF descFirst[MemoKeyOf(q)].text = ""
                     THEN [descFirst EXCEPT ![MemoKeyOf(q)] =
                             [text |-> description, at |-> descCalls]]
                     ELSE descFirst
               /\ IF q.kind = "short"
                  THEN /\ descriptionCache' =
                            [descriptionCache EXCEPT ![ToLowerCase(q.name)] = description]
                       /\ UNCHANGED detailedDescriptionCache
                  ELSE /\ detailedDescriptionCache' =
                            [detailedDescriptionCache EXCEPT
                               ![<<ToLowerCase(q.name), q.original>>] = description]
                       /\ UNCHANGED descriptionCache
    /\ UNCHANGED <<now, rlVars, notDesc, recVars, descCalls>>

\* the call has returned
DescReturn(c) ==
    /\ descReq[c].pc = "done"
    /\ descReq' = [descReq EXCEPT ![c] = IdleDescReq]
    /\ UNCHANGED <<now, rlVars, notDesc, recVars, descCalls,
                   descriptionCache, detailedDescriptionCache, descFirst>>

\* the provider key is set or not
DescInit ==
    /\ openaiKey \in BOOLEAN
    /\ recReq = IdleRecReq
    /\ recPosts = 0
    /\ DescIdle

DescNext ==
    \/ \E c \in DescSlots, kind \in {"short", "detailed"}, name \in DescNames,
          original \in DescOriginals : DescStart(c, kind, name, original)
    \/ \E c \in DescSlots, o \in DescOutcomes, text \in DescTexts : DescLLM(c, o, text)
    \/ \E c \in DescSlots : DescReturn(c)
    \/ Tick

InitDesc == RLIdle /\ NormIdle /\ PrefIdle /\ CacheIdle /\ DescInit /\ VisIdle /\ AnaIdle /\ ExtIdle

SpecDesc == InitDesc /\ [][DescNext]_vars

\* the strings that say "temporarily unavailable"
TemporarilyUnavailable ==
    {"Description temporarily unavailable",
     "Description temporarily unavailable due to rate limits",
     "Detailed description temporarily unavailable"}

\* C16: neither function throws; on a rate-limit denial and on a provider
\* error the result is the fixed "temporarily unavailable" string, and after
\* a denial no provider call has been made.
C16_FixedFallback ==
    \A c \in DescSlots :
       (descReq[c].pc = "done"
           /\ (descReq[c].denied \/ descReq[c].provider \in {"errorRateLimit", "errorOther"}))
         => /\ ~descReq[c].threw
            /\ descReq[c].result \in TemporarilyUnavailable
            /\ descReq[c].denied => descReq[c].llmCalls = 0

\* C16, amended: neither function throws; on a rate-limit denial and on a
\* provider error the result is a fallback, never a generated text: for
\* getDetailedDescription the original menu description if one was passed,
\* otherwise one of the fixed "... unavailable" strings (which say
\* "temporarily" for a denial and for a provider rate-limit error only); after
\* a denial no provider call has been made.
C16_NeverThrows ==
    \A c \in DescSlots :
       (descReq[c].pc = "done"
           /\ (descReq[c].denied \/ descReq[c].provider \in {"errorRateLimit", "errorOther"}))
         => /\ ~descReq[c].threw
            /\ IF descReq[c].kind = "detailed" /\ descReq[c].original # ""
               THEN descReq[c].result = descReq[c].original
               ELSE IF descReq[c].provider = "errorOther"
               THEN descReq[c].result \in {"Description unavailable",
                                           "Detailed description unavailable"}
               ELSE descReq[c].result \in TemporarilyUnavailable
            /\ descReq[c].denied => descReq[c].llmCalls = 0

\* the provider failed for a detailed description with an original menu
\* description, and the original was returned
C16_Witness ==
    \E c \in DescSlots :
       /\ descReq[c].pc = "done"
       /\ descReq[c].kind = "detailed"
       /\ descReq[c].provider = "errorOther"
       /\ descReq[c].result = "menu text"

\* C27: once a call has stored a description for a key, every call for that
\* key that begins afterwards returns that same string, without a provider
\* call and without consuming rate-limit quota.
C27_MemoizedForever ==
    \A c \in DescSlots :
       LET q == descReq[c]
       IN (q.pc = "done"
             /\ descFirst[MemoKeyOf(q)].text # ""
             /\ q.began > descFirst[MemoKeyOf(q)].at)
            => /\ q.result = descFirst[MemoKeyOf(q)].text
               /\ q.llmCalls = 0
               /\ q.quota = 0

(***************************************************************************)
(* SpecVision: analyzeMenuImage (openai-vision.ts:44-184), its fallback    *)
(* fallbackToGoogleVision (190-240) and the OCR wrapper analyzeImage       *)
(* (vision.ts:52-157).  The replies of the two providers are inputs.       *)
(***************************************************************************)
\* the longest OCR text
MaxTextLen == 6

\* words.length >= 2 (openai-vision.ts:217)
OcrMinWords == 2

\* words.length <= 10 and line.length <= 50 (217), scaled down so that lines
\* beyond either limit fit the text bound
OcrMaxWords == 2
OcrMaxChars == 4

\* the characters of an OCR text: a letter, a space, a line break
TextAlphabet == {"a", " ", "\n"}

\* the text analyzeImage returns when the OCR request fails (vision.ts:147-152,
\* 11 words and 65 characters): a line beyond both limits
OcrErrorText ==
    [i \in 1..(2 * OcrMaxWords + 1) |-> IF i % 2 = 1 THEN "a" ELSE " "]

RECURSIVE SplitLines(_)
\* text.split('\n')
SplitLines(text) ==
    IF \A i \in 1..Len(text) : text[i] # "\n" THEN <<text>>
    ELSE LET k == CHOOSE i \in 1..Len(text) :
                    text[i] = "\n" /\ \A j \in 1..(i - 1) : text[j] # "\n"
         IN <<SubSeq(text, 1, k - 1)>> \o SplitLines(SubSeq(text, k + 1, Len(text)))

RECURSIVE SplitWords(_)
\* s.split(/\s+/) for a trimmed, non-empty s; "\n" does not occur inside a line
SplitWords(s) ==
    IF \A i \in 1..Len(s) : ~IsSpace(s[i]) THEN <<s>>
    ELSE LET k == CHOOSE i \in 1..Len(s) :
                    IsSpace(s[i]) /\ \A j \in 1..(i - 1) : ~IsSpace(s[j])
         IN <<SubSeq(s, 1, k - 1)>>
               \o SplitWords(SubSeq(s, k + RunLen(s, k, SpaceChars), Len(s)))

\* line.trim().length > 0 (212)
NonEmptyLine(line) == Len(Trim(line)) > 0

\* a filter with the lower limit only
IsPotentialTitleLoose(line) == Len(SplitWords(Trim(line))) >= OcrMinWords

\* the filter of 215-218
IsPotentialTitle(line) ==
    LET words == SplitWords(Trim(line))
    IN Len(words) >= OcrMinWords /\ Len(words) <= OcrMaxWords /\ Len(line) <= OcrMaxChars

\* 207-223: the lines kept, as dishes with a name only
PotentialDishes(text) ==
    LET lines  == SelectSeq(SplitLines(text), NonEmptyLine)
        titles == SelectSeq(lines, IsPotentialTitle)
    IN [i \in 1..Len(titles) |-> [name |-> titles[i], originalDescription |-> ""]]

\* what the primary provider call ends in: an error that names an unsupported
\* image format, a rate-limit error, another error, content that does not
\* parse, content that parses to something without a usable dishes array,
\* a menu, not a menu
PrimaryOutcomes ==
    {"errorUnsupported", "errorRateLimit", "errorOther", "unparseable",
     "malformed", "menu", "notMenu"}

\* the dishes of a parsed primary reply
PrimaryDishes == << [name |-> <<"a", "b">>, originalDescription |-> "d1"] >>

\* a catch that rethrows every error
PrimaryCatchAll(e) == "throw"

\* the catch of 157-183: rethrow for an unsupported image format, else fall back
PrimaryCatch(e) == IF e = "errorUnsupported" THEN "throw" ELSE "fallback"

\* 49-66: the configuration checks and the rate check of the primary provider
VisStart ==
    /\ visReq.pc = "idle"
    /\ visCalls < MaxVisCalls
    /\ visCalls' = visCalls + 1
    /\ IF visConfig # "ok"
       THEN /\ visReq' = [IdleVisReq EXCEPT !.pc = "fallback", !.primary = visConfig]
            /\ UNCHANGED store
       ELSE IF ~RateAllowedNow("openai")
       THEN /\ visReq' = [IdleVisReq EXCEPT !.pc = "fallback", !.primary = "denied",
                                            !.denied = TRUE]
            /\ UNCHANGED store
       ELSE /\ visReq' = [IdleVisReq EXCEPT !.pc = "primary"]
            /\ store' = RateStoreAfter("openai")
    /\ UNCHANGED <<now, kvKind, expireAt, started, calls, notVis, visConfig>>

\* 70-183: the primary provider call, the parse and the catch
VisPrimary(o) ==
    /\ visReq.pc = "primary"
    /\ visReq' =
         IF o = "menu"
         THEN [visReq EXCEPT !.pc = "done", !.primary = o, !.returned = TRUE,
                             !.dishes = PrimaryDishes, !.isMenu = TRUE]
         ELSE IF o = "notMenu"
         THEN [visReq EXCEPT !.pc = "done", !.primary = o, !.returned = TRUE]
         ELSE IF o = "unparseable" \/ PrimaryCatch(o) = "fallback"
         THEN [visReq EXCEPT !.pc = "fallback", !.primary = o]
         ELSE [visReq EXCEPT !.pc = "done", !.primary = o, !.threw = TRUE]
    /\ UNCHANGED <<now, rlVars, notVis, visConfig, visCalls>>

\* 195-202: the fallback begins with the rate check of the OCR provider
VisFallback ==
    /\ visReq.pc = "fallback"
    /\ IF ~RateAllowedNow("google-vision")
       THEN /\ visReq' = [visReq EXCEPT !.pc = "done", !.fallbackRan = TRUE,
                                        !.ocrDenied = TRUE, !.returned = TRUE]
            /\ UNCHANGED store
       ELSE /\ visReq' = [visReq EXCEPT !.pc = "ocr", !.fallbackRan = TRUE]
            /\ store' = RateStoreAfter("google-vision")
    /\ UNCHANGED <<now, kvKind, expireAt, started, calls, notVis, visConfig, visCalls>>

\* 204-229 and vision.ts:52-154: the OCR request; a failure comes back as a
\* result with the error text and isMenu false
VisOCR(ok, text, isMenu) ==
    /\ visReq.pc = "ocr"
    /\ ok \/ (text = OcrErrorText /\ ~isMenu)
    /\ visReq' = [visReq EXCEPT !.pc = "done", !.ocrCalls = @ + 1, !.text = text,
                                !.dishes = PotentialDishes(text),
                                !.isMenu = isMenu, !.returned = TRUE]
    /\ UNCHANGED <<now, rlVars, notVis, visConfig, visCalls>>

\* the call has returned or thrown
VisReturn ==
    /\ visReq.pc = "done"
    /\ visReq' = IdleVisReq
    /\ UNCHANGED <<now, rlVars, notVis, visConfig, visCalls>>

VisInit ==
    /\ visConfig \in {"ok", "disabled", "misconfigured"}
    /\ visReq = IdleVisReq
    /\ visCalls = 0

VisNext ==
    \/ VisStart
    \/ \E o \in PrimaryOutcomes : VisPrimary(o)
    \/ VisFallback
    \/ \E ok \in BOOLEAN, text \in SeqsUpTo(TextAlphabet, MaxTextLen) \cup {OcrErrorText},
          isMenu \in BOOLEAN : VisOCR(ok, text, isMenu)
    \/ VisReturn

InitVis == RLIdle /\ NormIdle /\ PrefIdle /\ CacheIdle /\ RecIdle /\ DescIdle /\ VisInit /\ AnaIdle /\ ExtIdle

SpecVision == InitVis /\ [][VisNext]_vars

\* the ways the primary provider is not used or fails without the image
\* being of an unsupported format
FallbackCauses ==
    {"disabled", "misconfigured", "denied", "errorRateLimit", "errorOther",
     "unparseable", "malformed"}

\* C17: a finished analyzeMenuImage call has run the OCR fallback and returned
\* a result whenever the primary provider was disabled, misconfigured, denied
\* by the rate limiter, threw anything but an unsupported-image error or
\* returned content that does not parse; it has thrown exactly when the
\* provider's error names an unsupported image format, and has returned a
\* result in every other case.
C17_FallbackOrUnsupported ==
    visReq.pc = "done" =>
        /\ visReq.primary \in FallbackCauses => visReq.fallbackRan /\ visReq.returned
        /\ visReq.threw <=> visReq.primary = "errorUnsupported"
        /\ visReq.returned <=> ~visReq.threw
        /\ visReq.primary \in {"menu", "notMenu", "errorUnsupported"} => ~visReq.fallbackRan

\* a provider error of another kind ended in the fallback's result
C17_Witness ==
    /\ visReq.pc = "done"
    /\ visReq.primary = "errorOther"
    /\ visReq.fallbackRan
    /\ visReq.returned
    /\ visReq.ocrCalls = 1

\* the words of a line, counted at their first characters
WordCount(line) ==
    Cardinality({i \in 1..Len(line) :
                    ~IsSpace(line[i]) /\ (i = 1 \/ IsSpace(line[i - 1]))})

AnaNames == { <<"a">>, <<"A">>, <<"b">> }
AnaDishes == [name : AnaNames, originalDescription : {"", "m1"}]

\* the dish lists the extractor reports: none, one dish, or a dish and "b"
AnaMenus ==
    {<<>>} \cup {<<d>> : d \in AnaDishes}
           \cup {<<d, e>> : d \in {x \in AnaDishes : x.name # <<"b">>},
                            e \in {x \in AnaDishes : x.name = <<"b">>}}

\* what analyzeMenuImage returns, or that it throws (unsupported image format)
VisionResults ==
    [threw : {FALSE}, isMenu : BOOLEAN, dishes : AnaMenus]
        \cup { [threw |-> TRUE, isMenu |-> FALSE, dishes |-> <<>>] }

\* the rows in the table before the first request: none, or an entry the
\* serverless handler wrote (part_018:153-160, source 'openai') with or
\* without image URLs, still valid or already expired
SeedRows ==
    { <<>>,
      << [dishName |-> <<"a">>, dishId |-> DishIdOf(<<"a">>), imageUrls |-> <<"u1", "t1">>,
          description |-> "d1", source |-> "openai", expiresAt |-> MaxNow + CacheTtlTicks] >>,
      << [dishName |-> <<"a">>, dishId |-> DishIdOf(<<"a">>), imageUrls |-> <<>>,
          description |-> "d1", source |-> "openai", expiresAt |-> MaxNow + CacheTtlTicks] >>,
      << [dishName |-> <<"a">>, dishId |-> DishIdOf(<<"a">>), imageUrls |-> <<"u1", "t1">>,
          description |-> "d1", source |-> "openai", expiresAt |-> now - 1] >> }

IdleTask ==
    [pc |-> "find", name |-> <<>>, original |-> "", cachedDescription |-> "",
     imageUrl |-> "", description |-> "", fullHit |-> FALSE]

\* the placeholder of routes.ts:202
PlaceholderUrl == "https://placehold.co/400x300?text=No+Image"

\* a check that never short-circuits
IsNotMenuNever(v) == FALSE

\* !visionAnalysis.isMenu (routes.ts:113)
IsNotMenu(v) == ~v.isMenu

\* cacheDish (storage 208-258) on the table: the row with the dish id is
\* updated; without one the row is inserted, unless it has no source (NOT
\* NULL) and the insert throws, which both callers here catch
CacheDishRows(input) ==
    LET dishId == DishIdOf(input.dishName)
        ex     == ExistingDish(dishId)
    IN IF ex # {}
       THEN LET i   == CHOOSE x \in ex : TRUE
                old == dishRows[i]
            IN [dishRows EXCEPT ![i] =
                  [old EXCEPT
                     !.dishName = IF input.dishName # <<>> THEN input.dishName ELSE old.dishName,
                     !.imageUrls = IF input.imageUrls # <<>> THEN input.imageUrls ELSE old.imageUrls,
                     !.description = IF input.description # ""
                                     THEN input.description ELSE old.description,
                     !.expiresAt = now + CacheTtlTicks]]
       ELSE IF input.source = "none" THEN dishRows
       ELSE Append(dishRows,
                   [dishName |-> input.dishName, dishId |-> dishId,
                    imageUrls |-> input.imageUrls, description |-> input.description,
                    source |-> input.source, expiresAt |-> now + CacheTtlTicks])

\* 96-136: the request checks, the extractor's answer, the two early answers
AnaStart(pre, v) ==
    /\ anaReq.pc = "idle"
    /\ Len(anaLog) < MaxAnaReqs
    /\ anaReq' =
         IF pre # "ok"
         THEN [IdleAnaReq EXCEPT !.pc = "done", !.status = 400,
                                 !.fromEmpty = dishRows = <<>>]
         ELSE IF v.threw
         THEN [IdleAnaReq EXCEPT !.pc = "done", !.vision = "throw", !.status = 500,
                                 !.fromEmpty = dishRows = <<>>]
         ELSE LET q == [IdleAnaReq EXCEPT !.vision = "ok", !.isMenu = v.isMenu,
                                          !.extracted = v.dishes,
                                          !.fromEmpty = dishRows = <<>>]
              IN IF IsNotMenu(v) \/ Len(v.dishes) = 0
                 THEN [q EXCEPT !.pc = "done", !.status = 200]
                 ELSE [q EXCEPT !.pc = "tasks",
                         !.tasks = [k \in 1..Len(v.dishes) |->
                                      [IdleTask EXCEPT
                                         !.name = v.dishes[k].name,
                                         !.original = v.dishes[k].originalDescription]]]
    /\ UNCHANGED <<now, store, dishRows, descriptionCache, anaLog, notAna>>

\* 146-163: findDishInCache(normalizedName) answers; an entry with an image
\* URL and a description is the dish
AnaFind(k) ==
    /\ anaReq.pc = "tasks"
    /\ k \in 1..Len(anaReq.tasks)
    /\ anaReq.tasks[k].pc = "find"
    /\ LET t == anaReq.tasks[k]
           m == NameMatches(analyzeNormalize(t.name), now)
       IN \E i \in (IF m = {} THEN {0} ELSE m) :
            LET hit == i # 0 /\ dishRows[i].imageUrls # <<>> /\ dishRows[i].description # ""
            IN anaReq' =
                 IF hit
                 THEN [anaReq EXCEPT !.order = Append(@, k), !.tasks[k] =
                         [t EXCEPT !.pc = "done", !.fullHit = TRUE,
                                   !.description = dishRows[i].description,
                                   !.imageUrl = dishRows[i].imageUrls[1]]]
                 ELSE [anaReq EXCEPT !.tasks[k] =
                         [t EXCEPT !.pc = "image",
                                   !.cachedDescription =
                                      IF i = 0 THEN "" ELSE dishRows[i].description]]
    /\ UNCHANGED <<now, store, dishRows, descriptionCache, anaLog, notAna>>

\* 167 and part_010:87-125: searchDishImage begins: the configuration and
\* empty-name checks, the cache lookup under the resolver's key, the rate check
AnaImageStart(k) ==
    /\ anaReq.pc = "tasks"
    /\ k \in 1..Len(anaReq.tasks)
    /\ anaReq.tasks[k].pc = "image"
    /\ LET t == anaReq.tasks[k]
           q == [anaReq EXCEPT !.imageSearchCalls = @ + 1]
           m == NameMatches(imageSearchNormalize(t.name), now)
       IN IF ~imageSearchOn \/ Trim(t.name) = <<>>
          THEN /\ anaReq' = [q EXCEPT !.tasks[k] = [t EXCEPT !.pc = "describe"]]
               /\ UNCHANGED store
          ELSE \E i \in (IF m = {} THEN {0} ELSE m) :
                 IF i # 0 /\ dishRows[i].imageUrls # <<>>
                 THEN /\ anaReq' = [q EXCEPT !.tasks[k] =
                            [t EXCEPT !.pc = "describe",
                                      !.imageUrl = dishRows[i].imageUrls[1]]]
                      /\ UNCHANGED store
                 ELSE IF ~RateAllowedNow(ImageSearchApi)
                 THEN /\ anaReq' = [q EXCEPT !.rateChecks = @ + 1,
                                             !.tasks[k] = [t EXCEPT !.pc = "describe"]]
                      /\ UNCHANGED store
                 ELSE /\ anaReq' = [q EXCEPT !.rateChecks = @ + 1,
                                             !.tasks[k] = [t EXCEPT !.pc = "fetch"]]
                      /\ store' = RateStoreAfter(ImageSearchApi)
    /\ UNCHANGED <<now, dishRows, descriptionCache, anaLog, notAna>>

\* part_010:146-202: the search request; the first item is the result and is
\* handed to cacheDish without a source
AnaImageFetch(k, o) ==
    /\ anaReq.pc = "tasks"
    /\ k \in 1..Len(anaReq.tasks)
    /\ anaReq.tasks[k].pc = "fetch"
    /\ LET t == anaReq.tasks[k]
           q == [anaReq EXCEPT !.extImage = @ + 1]
       IN IF o = "items"
          THEN /\ anaReq' = [q EXCEPT !.cacheWrites = @ + 1,
                                      !.tasks[k] = [t EXCEPT !.pc = "describe",
                                                             !.imageUrl = SearchUrls[1]]]
               /\ dishRows' = CacheDishRows(
                      [dishName |-> imageSearchNormalize(t.name), imageUrls |-> SearchUrls,
                       description |-> "", source |-> "none"])
          ELSE /\ anaReq' = [q EXCEPT !.tasks[k] = [t EXCEPT !.pc = "describe"]]
               /\ UNCHANGED dishRows
    /\ UNCHANGED <<now, store, descriptionCache, anaLog, notAna>>

\* 173-184 and part_017:35-56: the description of the entry found, else the
\* menu's description (at most 80 characters here, so as it is), else
\* getOpenAIDescription begins: the Map lookup, the key check, the rate check
AnaDescribe(k) ==
    /\ anaReq.pc = "tasks"
    /\ k \in 1..Len(anaReq.tasks)
    /\ anaReq.tasks[k].pc = "describe"
    /\ LET t == anaReq.tasks[k]
           q == [anaReq EXCEPT !.descCalls = @ + 1]
           memo == descriptionCache[ToLowerCase(t.name)]
       IN IF t.cachedDescription # ""
          THEN /\ anaReq' = [anaReq EXCEPT !.order = Append(@, k), !.tasks[k] =
                     [t EXCEPT !.pc = "done", !.description = t.cachedDescription]]
               /\ UNCHANGED store
          ELSE IF t.original # ""
          THEN /\ anaReq' = [anaReq EXCEPT !.tasks[k] =
                     [t EXCEPT !.pc = "store", !.description = t.original]]
               /\ UNCHANGED store
          ELSE IF memo # ""
          THEN /\ anaReq' = [q EXCEPT !.tasks[k] =
                     [t EXCEPT !.pc = "store", !.description = memo]]
               /\ UNCHANGED store
          ELSE IF ~openaiKey
          THEN /\ anaReq' = [q EXCEPT !.tasks[k] =
                     [t EXCEPT !.pc = "store", !.description = "No description available"]]
               /\ UNCHANGED store
          ELSE IF ~RateAllowedNow("openai")
          THEN /\ anaReq' = [q EXCEPT !.rateChecks = @ + 1, !.tasks[k] =
                     [t EXCEPT !.pc = "store",
                               !.description = "Description temporarily unavailable"]]
               /\ UNCHANGED store
          ELSE /\ anaReq' = [q EXCEPT !.rateChecks = @ + 1,
                                      !.tasks[k] = [t EXCEPT !.pc = "llm"]]
               /\ store' = RateStoreAfter("openai")
    /\ UNCHANGED <<now, dishRows, descriptionCache, anaLog, notAna>>

\* part_017:59-97: the provider call of getOpenAIDescription
AnaDescLLM(k, o) ==
    /\ anaReq.pc = "tasks"
    /\ k \in 1..Len(anaReq.tasks)
    /\ anaReq.tasks[k].pc = "llm"
    /\ LET t == anaReq.tasks[k]
           q == [anaReq EXCEPT !.extDesc = @ + 1]
           description == IF o = "text" THEN GeneratedText ELSE "No description available"
       IN IF o \in {"errorRateLimit", "errorOther"}
          THEN /\ anaReq' = [q EXCEPT !.tasks[k] =
                     [t EXCEPT !.pc = "store",
                               !.description =
                                  DescCaught([IdleDescReq EXCEPT !.kind = "short"], o).result]]
               /\ UNCHANGED descriptionCache
          ELSE /\ anaReq' = [q EXCEPT !.tasks[k] =
                     [t EXCEPT !.pc = "store", !.description = description]]
               /\ descriptionCache' =
                     [descriptionCache EXCEPT ![ToLowerCase(t.name)] = description]
    /\ UNCHANGED <<now, store, dishRows, anaLog, notAna>>

\* 186-198: cacheDish with the description and the image URL, without a
\* source, under a catch
AnaStore(k) ==
    /\ anaReq.pc = "tasks"
    /\ k \in 1..Len(anaReq.tasks)
    /\ anaReq.tasks[k].pc = "store"
    /\ LET t == anaReq.tasks[k]
       IN /\ anaReq' = [anaReq EXCEPT !.cacheWrites = @ + 1, !.order = Append(@, k),
                                      !.tasks[k] = [t EXCEPT !.pc = "done"]]
          /\ dishRows' = CacheDishRows(
                 [dishName |-> analyzeNormalize(t.name),
                  imageUrls |-> IF t.imageUrl = "" THEN <<>> ELSE <<t.imageUrl>>,
                  description |-> t.description, source |-> "none"])
    /\ UNCHANGED <<now, store, descriptionCache, anaLog, notAna>>

\* the dish a finished task returns (200-208)
FinalDish(t) ==
    [name |-> t.name, description |-> t.description,
     imageUrl |-> IF t.imageUrl = "" THEN PlaceholderUrl ELSE t.imageUrl]

\* an array filled in the order in which the tasks finished
DishesByCompletion(tasks, order) == [k \in 1..Len(tasks) |-> FinalDish(tasks[order[k]])]

\* the array Promise.all resolves to (138-214): the value of the k-th
\* callback at index k, whatever the order in which they finished
DishesWithDetails(tasks, order) == [k \in 1..Len(tasks) |-> FinalDish(tasks[k])]

\* 199-223: every task has its dish; the answer is 200 with the dishes
AnaRespond ==
    /\ anaReq.pc = "tasks"
    /\ \A k \in 1..Len(anaReq.tasks) : anaReq.tasks[k].pc = "done"
    /\ anaReq' = [anaReq EXCEPT
         !.pc = "done", !.status = 200,
         !.answer = DishesWithDetails(anaReq.tasks, anaReq.order)]
    /\ UNCHANGED <<now, store, dishRows, descriptionCache, anaLog, notAna>>

\* the answer is sent
AnaReturn ==
    /\ anaReq.pc = "done"
    /\ anaLog' = Append(anaLog,
         [status |-> anaReq.status, fromEmpty |-> anaReq.fromEmpty,
          names |-> [k \in 1..Len(anaReq.extracted) |-> anaReq.extracted[k].name],
          answer |-> anaReq.answer,
          extImage |-> anaReq.extImage, extDesc |-> anaReq.extDesc])
    /\ anaReq' = IdleAnaReq
    /\ UNCHANGED <<now, store, dishRows, descriptionCache, notAna>>

AnaInit ==
    /\ dishRows \in SeedRows
    /\ jobs = [w \in Workers |-> IdleJob]
    /\ cacheOps = 0
    /\ imageSearchOn \in BOOLEAN
    /\ openaiKey \in BOOLEAN
    /\ recReq = IdleRecReq
    /\ recPosts = 0
    /\ AnaIdle

AnaNext ==
    \/ \E pre \in {"ok", "noFile", "noDevice"}, v \in VisionResults :
          AnaStart(pre, v)
    \/ \E k \in 1..Len(anaReq.tasks) : AnaFind(k)
    \/ \E k \in 1..Len(anaReq.tasks) : AnaImageStart(k)
    \/ \E k \in 1..Len(anaReq.tasks), o \in FetchOutcomes : AnaImageFetch(k, o)
    \/ \E k \in 1..Len(anaReq.tasks) : AnaDescribe(k)
    \/ \E k \in 1..Len(anaReq.tasks), o \in DescOutcomes : AnaDescLLM(k, o)
    \/ \E k \in 1..Len(anaReq.tasks) : AnaStore(k)
    \/ AnaRespond
    \/ AnaReturn

InitAna == RLIdle /\ NormIdle /\ PrefIdle /\ DescIdle /\ VisIdle /\ AnaInit /\ ExtIdle

SpecAnalyze == InitAna /\ [][AnaNext]_vars

\* C19: a request whose extractor result says isMenu = false is answered 200
\* with an empty dish list and has started no dish task: no searchDishImage
\* call, no getOpenAIDescription call, no rate check for either, no cacheDish
\* call, no request to the image search or the description provider.
C19_NotMenuShortCircuits ==
    anaReq.pc = "done" /\ anaReq.vision = "ok" /\ ~anaReq.isMenu =>
        /\ anaReq.status = 200
        /\ anaReq.answer = <<>>
        /\ anaReq.tasks = <<>>
        /\ anaReq.imageSearchCalls = 0
        /\ anaReq.descCalls = 0
        /\ anaReq.rateChecks = 0
        /\ anaReq.cacheWrites = 0
        /\ anaReq.extImage = 0
        /\ anaReq.extDesc = 0

\* the extractor named two dishes and said isMenu = false; the answer is ready
C19_Witness ==
    /\ anaReq.pc = "done"
    /\ anaReq.vision = "ok"
    /\ ~anaReq.isMenu
    /\ Len(anaReq.extracted) = 2
    /\ anaReq.status = 200

\* an answer with at least one dish, each with a description and an image URL
CompleteAnswer(e) ==
    /\ e.status = 200
    /\ e.answer # <<>>
    /\ \A k \in 1..Len(e.answer) : e.answer[k].description # "" /\ e.answer[k].imageUrl # ""

\* C20: if the table was empty before the first request, the first request
\* was answered with every extracted dish carrying a description and an image
\* URL, and the second request extracted the same dish names, then the second
\* request made no request to the image search and none to the description
\* provider.
C20_FollowUpFromCache ==
    /\ Len(anaLog) >= 2
    /\ anaLog[1].fromEmpty
    /\ CompleteAnswer(anaLog[1])
    /\ anaLog[2].names = anaLog[1].names
    => anaLog[2].extImage = 0 /\ anaLog[2].extDesc = 0

\* the degraded results of getOpenAIDescription (part_017:49, 55, 92, 96)
DegradedDescriptions ==
    {"No description available",
     "Description temporarily unavailable",
     "Description temporarily unavailable due to rate limits",
     "Description unavailable"}

\* C29: no row of the dish cache carries a degraded fallback string of the
\* description generator as its description, so a denial or a provider error
\* is never served later as a cached description.
C29_NoDegradedCached ==
    \A i \in 1..Len(dishRows) : dishRows[i].description \notin DegradedDescriptions

(***************************************************************************)
(* SpecLive: the operations of the core waiting on their external calls.   *)
(* The provider clients are built with a timeout and a retry count         *)
(* (part_017:11-15, openai-vision.ts:12-16, part_013:6-10); the image      *)
(* search request is a fetch without a signal (part_010:146-151) and the   *)
(* OCR request an axios.post without a timeout (vision.ts:94-97).  The     *)
(* collaborator may answer, or never answer.                               *)
(***************************************************************************)
\* the operations and the external call each begins with
LiveOps == {"resolver", "description", "detailed", "vision", "recommendation"}
FirstSite(op) ==
    IF op = "resolver" THEN "google-search"
    ELSE IF op = "vision" THEN "openai-vision"
    ELSE IF op = "recommendation" THEN "openai-recommendations"
    ELSE "openai-descriptions"

\* maxRetries of the client of a call site; fetch and axios.post do not retry
MaxRetriesOf(site) ==
    IF site = "openai-vision" THEN 3
    ELSE IF site = "openai-descriptions" THEN 3
    ELSE IF site = "openai-recommendations" THEN 2
    ELSE 0

\* the call sites whose request is given a timeout
HasTimeout(site) ==
    site \in {"openai-vision", "openai-descriptions", "openai-recommendations"}

\* the operation starts and sends its first request
LiveStart(op) ==
    /\ liveReq.pc = "idle"
    /\ liveCalls < MaxLiveCalls
    /\ liveCalls' = liveCalls + 1
    /\ liveReq' = [IdleLiveReq EXCEPT !.pc = "waiting", !.op = op, !.site = FirstSite(op)]
    /\ UNCHANGED <<now, rlVars, normVars, prefVars, cacheVars, recVars, descVars, visVars,
                   anaVars, statsReq, batchReq>>

\* an attempt has failed in a way the client retries, or for good
LiveAttemptFailed(retryable) ==
    IF retryable /\ liveReq.attempt < MaxRetriesOf(liveReq.site)
    THEN [liveReq EXCEPT !.attempt = @ + 1]
    ELSE [liveReq EXCEPT !.pc = "failed", !.failed = TRUE]

\* the collaborator answers: a result, an error the client retries, another error
LiveRespond(o) ==
    /\ liveReq.pc = "waiting"
    /\ liveReq' = IF o = "ok" THEN [liveReq EXCEPT !.pc = "done"]
                  ELSE LiveAttemptFailed(o = "retryable")
    /\ UNCHANGED <<now, rlVars, normVars, prefVars, cacheVars, recVars, descVars, visVars,
                   anaVars, liveCalls, statsReq, batchReq>>

\* the timeout of the request fires; the client retries or gives up
LiveTimeout ==
    /\ liveReq.pc = "waiting"
    /\ HasTimeout(liveReq.site)
    /\ liveReq' = LiveAttemptFailed(TRUE)
    /\ UNCHANGED <<now, rlVars, normVars, prefVars, cacheVars, recVars, descVars, visVars,
                   anaVars, liveCalls, statsReq, batchReq>>

\* the catch of the operation: the vision extractor goes on to the OCR
\* request (openai-vision.ts:176, 204), the others return their fallback
LiveDegrade ==
    /\ liveReq.pc = "failed"
    /\ liveReq' =
         IF liveReq.op = "vision" /\ liveReq.site = "openai-vision"
         THEN [liveReq EXCEPT !.pc = "waiting", !.site = "google-vision", !.attempt = 0,
                              !.fellBack = TRUE]
         ELSE [liveReq EXCEPT !.pc = "done"]
    /\ UNCHANGED <<now, rlVars, normVars, prefVars, cacheVars, recVars, descVars, visVars,
                   anaVars, liveCalls, statsReq, batchReq>>

\* the operation has returned
LiveReturn ==
    /\ liveReq.pc = "done"
    /\ liveReq' = IdleLiveReq
    /\ UNCHANGED <<now, rlVars, normVars, prefVars, cacheVars, recVars, descVars, visVars,
                   anaVars, liveCalls, statsReq, batchReq>>

LiveNext ==
    \/ \E op \in LiveOps : LiveStart(op)
    \/ \E o \in {"ok", "retryable", "fatal"} : LiveRespond(o)
    \/ LiveTimeout
    \/ LiveDegrade
    \/ LiveReturn

InitLive == RLIdle /\ NormIdle /\ PrefIdle /\ CacheIdle /\ RecIdle /\ DescIdle /\ VisIdle
            /\ AnaIdle /\ ExtIdle

\* the steps of the program and its timers are taken; the collaborator's
\* answer is not
SpecLive ==
    /\ InitLive
    /\ [][LiveNext]_vars
    /\ WF_vars(LiveTimeout)
    /\ WF_vars(LiveDegrade)
    /\ WF_vars(LiveReturn)

\* C21: every operation that waits on an external call eventually returns,
\* whether or not the collaborator ever answers.
C21_EveryCallReturns == (liveReq.pc = "waiting") ~> (liveReq.pc = "done")

\* a checkAndIncrement call that has not returned, or whose INCR is still in
\* flight, works on bucket k
InFlightOn(k) ==
    \E p \in Callers :
        /\ calls[p].pc \notin {"idle", "done"} \/ calls[p].pend # {}
        /\ k \in {calls[p].wkey, calls[p].dkey}

\* C22: on Vercel KV, once the calls working on a bucket have returned, a
\* bucket whose counter is at least 1 has an expiry set, also when a store
\* operation of such a call failed.
C22_ReturnedBucketsExpire ==
    kvKind = "vercel" =>
        \A k \in Keys : store[k] >= 1 /\ ~InFlightOn(k) => expireAt[k] # -1

(***************************************************************************)
(* SpecStats: getUsageStats (rate-limiter.ts:205-239) beside               *)
(* checkAndIncrement calls and the clock.  A checkAndIncrement call is one *)
(* step here (its interleavings are SpecRL); the two gets that             *)
(* getUsageStats issues for one API are one step.                          *)
(***************************************************************************)
\* Math.floor(now / 60000) in ticks (210)
StatsWindowTicks == 1

\* `rate:${apiName}:${currentWindow}` (214 of getUsageStats)
StatsWindowKey(a, t) == <<a, "window", t \div StatsWindowTicks>>

\* a flag that counts a full bucket as within limits
WithinLimitsLoose(w, d, lim) == w <= lim.perMinute /\ d <= lim.perDay

\* currentWindowUsage < limits.perMinute && currentDailyUsage < limits.perDay (230)
WithinLimits(w, d, lim) == w < lim.perMinute /\ d < lim.perDay

\* a checkAndIncrement(api) call, start to return
StatsCheckAndIncrement(a) ==
    /\ started < MaxCalls
    /\ started' = started + 1
    /\ store' = RateStoreAfter(a)
    /\ expireAt' =
         IF a \in DOMAIN limits /\ RateAllowedNow(a)
         THEN LET s1 == RateStoreAfter(a)
                  e1 == IF s1[WindowKey(a, now)] = 1
                        THEN KvExpire(expireAt, s1, WindowKey(a, now)) ELSE expireAt
              IN IF s1[DailyKey(a, now)] = 1 THEN KvExpire(e1, s1, DailyKey(a, now)) ELSE e1
         ELSE expireAt
    /\ UNCHANGED <<now, kvKind, calls, notRL>>

\* 206-210: getKV, the clock, the window and the day
StatsStart ==
    /\ statsReq.pc = "idle"
    /\ statsReq' = [IdleStatsReq EXCEPT !.pc = "read", !.at = now]
    /\ UNCHANGED <<now, rlVars, normVars, prefVars, cacheVars, recVars, descVars, visVars,
                   anaVars, liveVars, batchReq>>

\* 212-232: the two gets of the next API and its entry of the result
StatsRead ==
    /\ statsReq.pc = "read"
    /\ LET a   == LimitOrder[statsReq.next]
           w   == KvGet(StatsWindowKey(a, statsReq.at))
           d   == KvGet(DailyKey(a, statsReq.at))
           e   == [windowUsage |-> w, dailyUsage |-> d, dailyLimit |-> limits[a].perDay,
                   withinLimits |-> WithinLimits(w, d, limits[a])]
           q   == [statsReq EXCEPT !.stats[a] = e, !.next = @ + 1]
       IN statsReq' = IF q.next > Len(LimitOrder)
                      THEN [q EXCEPT !.pc = "done", !.returned = "stats"] ELSE q
    /\ UNCHANGED <<now, rlVars, normVars, prefVars, cacheVars, recVars, descVars, visVars,
                   anaVars, liveVars, batchReq>>

\* 235-238: a get rejects on Vercel KV; the catch returns {}
StatsFail ==
    /\ statsReq.pc = "read"
    /\ kvKind = "vercel"
    /\ statsReq' = [statsReq EXCEPT !.pc = "done", !.returned = "empty"]
    /\ UNCHANGED <<now, rlVars, normVars, prefVars, cacheVars, recVars, descVars, visVars,
                   anaVars, liveVars, batchReq>>

\* the call has returned
StatsReturn ==
    /\ statsReq.pc = "done"
    /\ statsReq' = IdleStatsReq
    /\ UNCHANGED <<now, rlVars, normVars, prefVars, cacheVars, recVars, descVars, visVars,
                   anaVars, liveVars, batchReq>>

StatsNext ==
    \/ \E a \in DOMAIN limits : StatsCheckAndIncrement(a)
    \/ StatsStart
    \/ StatsRead
    \/ StatsFail
    \/ StatsReturn
    \/ \E k \in Keys : KvEvict(k)
    \/ Tick

InitStats == RLInit /\ NormIdle /\ PrefIdle /\ CacheIdle /\ ApiIdle

SpecStats == InitStats /\ [][StatsNext]_vars

\* C23: a step of getUsageStats changes no counter and no expiry, and the
\* withinLimits flag it computes for an API is true exactly when a
\* checkAndIncrement for that API, run in the same state, is allowed.
C23_StatsAgreeAndReadOnly ==
    [][ statsReq' # statsReq =>
          /\ UNCHANGED <<store, expireAt>>
          /\ \A a \in DOMAIN limits :
                statsReq'.stats[a] # statsReq.stats[a] /\ statsReq'.pc # "idle" /\ statsReq.at = now
                    => (statsReq'.stats[a].withinLimits <=> RateAllowedNow(a)) ]_vars

\* a returned result says that one API is within its limits and the other is not
C23_Witness ==
    /\ statsReq.pc = "done"
    /\ statsReq.returned = "stats"
    /\ ~statsReq.stats["openai"].withinLimits
    /\ statsReq.stats["google-vision"].withinLimits
    /\ statsReq.stats["openai"].windowUsage = OpenaiPerMinute

BatchSize == 2
MaxBatchNames == 5

BatchNames == { <<"a">>, <<"b">> }

Min(x, y) == IF x <= y THEN x ELSE y

\* a slice that takes in the rest of the array
BatchSliceAll(dishNames, i) == (i + 1)..Len(dishNames)

\* the indices (from 1) of dishNames.slice(i, i + BATCH_SIZE)
BatchSlice(dishNames, i) == (i + 1)..Min(i + BatchSize, Len(dishNames))

\* 214-222: the call begins; an empty array skips the loop
BatchStart(dishNames) ==
    /\ batchReq.pc = "idle"
    /\ ~batchReq.returned
    /\ batchReq' = [IdleBatchReq EXCEPT
                      !.pc = IF Len(dishNames) = 0 THEN "done" ELSE "chunk",
                      !.dishNames = dishNames,
                      !.calls = [k \in 1..Len(dishNames) |-> "none"]]
    /\ UNCHANGED <<now, rlVars, normVars, prefVars, cacheVars, recVars, descVars, visVars,
                   anaVars, liveVars, statsReq>>

\* 223-230: batch.map starts one searchDishImage call per name of the slice
BatchLaunch ==
    /\ batchReq.pc = "chunk"
    /\ batchReq' = [batchReq EXCEPT
         !.pc = "await",
         !.calls = [k \in 1..Len(batchReq.dishNames) |->
                      IF k \in BatchSlice(batchReq.dishNames, batchReq.i)
                      THEN "running" ELSE batchReq.calls[k]]]
    /\ UNCHANGED <<now, rlVars, normVars, prefVars, cacheVars, recVars, descVars, visVars,
                   anaVars, liveVars, statsReq>>

\* a searchDishImage call returns its result
BatchCallReturn(k) ==
    /\ batchReq.pc = "await"
    /\ k \in 1..Len(batchReq.calls)
    /\ batchReq.calls[k] = "running"
    /\ batchReq' = [batchReq EXCEPT !.calls[k] = "returned"]
    /\ UNCHANGED <<now, rlVars, normVars, prefVars, cacheVars, recVars, descVars, visVars,
                   anaVars, liveVars, statsReq>>

\* 225-239: Promise.all has resolved; the results are set by name; a further
\* slice waits for the delay first
BatchGather ==
    /\ batchReq.pc = "await"
    /\ \A k \in 1..Len(batchReq.calls) : batchReq.calls[k] # "running"
    /\ LET slice == BatchSlice(batchReq.dishNames, batchReq.i)
           more  == batchReq.i + BatchSize < Len(batchReq.dishNames)
       IN batchReq' = [batchReq EXCEPT
            !.results = @ \cup {batchReq.dishNames[k] : k \in slice},
            !.pc = IF more THEN "delay" ELSE "done",
            !.i = IF more THEN @ ELSE @ + BatchSize]
    /\ UNCHANGED <<now, rlVars, normVars, prefVars, cacheVars, recVars, descVars, visVars,
                   anaVars, liveVars, statsReq>>

\* 237-239 and 222: the delay has passed; i += BATCH_SIZE
BatchDelay ==
    /\ batchReq.pc = "delay"
    /\ batchReq' = [batchReq EXCEPT !.pc = "chunk", !.i = @ + BatchSize]
    /\ UNCHANGED <<now, rlVars, normVars, prefVars, cacheVars, recVars, descVars, visVars,
                   anaVars, liveVars, statsReq>>

\* 242: return results
BatchReturn ==
    /\ batchReq.pc = "done"
    /\ batchReq' = [batchReq EXCEPT !.pc = "idle", !.returned = TRUE]
    /\ UNCHANGED <<now, rlVars, normVars, prefVars, cacheVars, recVars, descVars, visVars,
                   anaVars, liveVars, statsReq>>

BatchNext ==
    \/ \E dishNames \in SeqsUpTo(BatchNames, MaxBatchNames) : BatchStart(dishNames)
    \/ BatchLaunch
    \/ \E k \in 1..MaxBatchNames : BatchCallReturn(k)
    \/ BatchGather
    \/ BatchDelay
    \/ BatchReturn

InitBatch == RLIdle /\ NormIdle /\ PrefIdle /\ CacheIdle /\ ApiIdle

\* the steps of searchMultipleDishImages and its timer are taken; the return
\* of a searchDishImage call waits on the search request, which has no
\* timeout (part_010:146-151), and is not
SpecBatch ==
    /\ InitBatch
    /\ [][BatchNext]_vars
    /\ WF_vars(BatchLaunch)
    /\ WF_vars(BatchGather)
    /\ WF_vars(BatchDelay)
    /\ WF_vars(BatchReturn)

\* the chunk (from 0) of the k-th name
ChunkOf(k) == (k - 1) \div BatchSize

\* at most BatchSize calls are in flight, and a call of a chunk has started
\* only if every call of the chunks before has returned
BatchChunked ==
    /\ Cardinality({k \in 1..Len(batchReq.calls) : batchReq.calls[k] = "running"}) <= BatchSize
    /\ \A j, k \in 1..Len(batchReq.calls) :
          ChunkOf(j) < ChunkOf(k) /\ batchReq.calls[k] # "none"
              => batchReq.calls[j] = "returned"

\* the call has returned with a result for every name of the input
BatchComplete ==
    /\ batchReq.returned
    /\ batchReq.results = {batchReq.dishNames[k] : k \in 1..Len(batchReq.dishNames)}

\* C25: the calls are made chunk by chunk, never more than BatchSize (5 in
\* the code) in flight and a chunk only after the one before has returned,
\* and a call that has begun ends with a result for every distinct name.
C25_ChunkedAndTerminates ==
    /\ []BatchChunked
    /\ (batchReq.pc # "idle") ~> BatchComplete

\* C26: every recommendation of a 200 answer has the name, the description
\* and the image URL of one dish of the input list, the one it matched.
C26_FieldsFromMenu ==
    recReq.status = 200 =>
        \A i \in 1..Len(recReq.details) :
            \E k \in 1..Len(recReq.dishes) :
                /\ MenuKey(recReq.dishes[k]) = MenuKey(recReq.details[i].name)
                /\ recReq.details[i].name = recReq.dishes[k]
                /\ recReq.details[i].description = MenuField(k)
                /\ recReq.details[i].imageUrl = MenuField(k)

=============================================================================
